---- MODULE Spec2Model ----
(***************************************************************************)
(* Reservation / wait-queue core of Blitz-API (retirement app).            *)
(* Handlers are modelled one action per request; the database rows are the *)
(* state.  Times are minutes, money is integer cents.                      *)
(***************************************************************************)
EXTENDS Integers, Sequences, FiniteSets, TLC

VARIABLES reserved_seats, next_user_notified, reservations,
          order_lines, orders, refunds, wait_queue, notifications,
          profiles, now, resp, req, probe,
          coupon, coupon_uses, tickets, membership, timeslot_users,
          time_slots

vars == <<reserved_seats, next_user_notified, reservations,
          order_lines, orders, refunds, wait_queue, notifications,
          profiles, now, resp, req, probe,
          coupon, coupon_uses, tickets, membership, timeslot_users,
          time_slots>>

(* the store's coupon, the users' coupon uses, tickets and membership, the
   users registered to the time slot, and the time slots of the periods *)
store == <<coupon, coupon_uses, tickets, membership, timeslot_users, time_slots>>

(* request slots of the interleaved runs, the pure-function probe, and the
   store rows that the retreat handlers do not touch *)
aux == <<req, probe, store>>

(* ------------------------------ bounds --------------------------------- *)
(* reservation rows written by bookings; an exchange may add its copy row
   on top of them *)
MaxRows == 1
MaxQueue == 2
(* rows of the runs that only use the administrative endpoints *)
MaxAdminRows == 2

(* --------------------------- fixed universe ---------------------------- *)
Users == {"u1", "u2"}
Retreats == {"A", "B", "C"}
Quantities == {1, 2}
Day == 1440
Instants == {0, 4 * Day + 1}
GatewayAnswers == {TRUE}
FailingCalls == {0}
WaitRetreats == {"B"}
WaitUsers == {"u2"}
CreateRetreats == {"A"}
CreateUsers == {"u1"}
OrderLines == {<<"A", 1>>, <<"B", 1>>, <<"C", 1>>, <<"C", 2>>}

NOTIFICATION_LIFETIME_DAYS == 3
ThrottleMinutes == 1435

TaxNum == 15
TaxDen == 100

start_time == [e \in Retreats |->
                 CASE e = "A" -> 10 * Day [] e = "B" -> 12 * Day [] OTHER -> 11 * Day]
end_time == [e \in Retreats |->
               CASE e = "A" -> 12 * Day [] e = "B" -> 14 * Day [] OTHER -> 13 * Day]
seats == [e \in Retreats |->
            CASE e = "A" -> 1 [] e = "B" -> 0 [] OTHER -> 2]
price == [e \in Retreats |->
            CASE e = "A" -> 19999 [] e = "B" -> 19999 [] OTHER -> 9998]
min_day_refund == [e \in Retreats |-> IF e = "A" THEN 10 ELSE 7]
min_day_exchange == [e \in Retreats |-> IF e = "A" THEN 10 ELSE 7]
refund_rate == [e \in Retreats |-> 50]
InitReservedSeats ==
  {[e \in Retreats |-> CASE e = "A" -> 0 [] e = "B" -> b [] OTHER -> 1] : b \in {0, 1}}

(* ------------------------------ helpers -------------------------------- *)
Max(a, b) == IF a > b THEN a ELSE b
Min(a, b) == IF a < b THEN a ELSE b

Ids == 1..Len(reservations)

NoLine == 0

(* Reservation row as stored by Reservation.objects.create / save *)
Row(u, e, act, ol) ==
  [user |-> u, retreat |-> e, is_active |-> act, is_present |-> FALSE,
   cancelation_reason |-> "none", cancelation_action |-> "none",
   cancelation_date |-> -1, order_line |-> ol]

(* retirement.total_reservations: active reservations of the event *)
total_reservations(e) ==
  Cardinality({i \in Ids : reservations[i].retreat = e /\ reservations[i].is_active})

(* seats - total_reservations - reserved_seats *)
places_remaining(e) == seats[e] - total_reservations(e) - reserved_seats[e]

HasNotification(u, e) == \E n \in notifications : n.user = u /\ n.retreat = e

(* faulty variant: any reserved seat admits, notified or not *)
Admitted_AnyReserved(u, e) ==
  \/ places_remaining(e) > 0
  \/ reserved_seats[e] > 0

(* faulty variant: reserved seats are never handed out *)
Admitted_PlacesOnly(u, e) == places_remaining(e) > 0

(* availability condition of a booking *)
Admitted(u, e) ==
  \/ places_remaining(e) > 0
  \/ (reserved_seats[e] > 0 /\ HasNotification(u, e))

(* faulty variant: closed intervals *)
Overlaps_Closed(s1, e1, s2, e2) == Max(s1, s2) <= Min(e1, e2)

(* max(existing.start, new.start) < min(existing.end, new.end) *)
Overlaps(s1, e1, s2, e2) == Max(s1, s2) < Min(e1, e2)

(* an active reservation of u, other than row `skip`, overlaps event e *)
OverlapsActive(u, e, skip) ==
  \E i \in Ids :
    /\ i # skip
    /\ reservations[i].user = u
    /\ reservations[i].is_active
    /\ Overlaps(start_time[reservations[i].retreat], end_time[reservations[i].retreat],
                start_time[e], end_time[e])

RemoveUser(q, u) == SelectSeq(q, LAMBDA x : x # u)

InQueue(u, e) == \E k \in 1..Len(wait_queue[e]) : wait_queue[e][k] = u

(* faulty variant: a fraction of a cent is rounded up *)
WithTax_RoundedUp(cents) == (cents * (TaxDen + TaxNum) + TaxDen - 1) \div TaxDen

(* amount * (1 + TAX), in integer cents (int() truncates) *)
WithTax(cents) == (cents * (TaxDen + TaxNum)) \div TaxDen

Reply(op, status, gw, sched) ==
  [op |-> op, status |-> status, gw |-> gw, sched |-> sched]

(* ------------------------------- Init ---------------------------------- *)
BaseInit ==
  /\ reserved_seats \in InitReservedSeats
  /\ next_user_notified = [e \in Retreats |-> 0]
  /\ reservations = <<>>
  /\ order_lines = <<>>
  /\ orders = <<>>
  /\ refunds = <<>>
  /\ wait_queue = [e \in Retreats |-> <<>>]
  /\ notifications = {}
  /\ profiles = {}
  /\ now = 0
  /\ resp = Reply("init", "ok", <<>>, FALSE)

(* no coupon; every user starts with one ticket and without membership *)
NoCoupon == [value |-> 0, percent_off |-> 0, max_use |-> 0, max_use_per_user |-> 0]

StoreIdle ==
  /\ coupon = NoCoupon
  /\ coupon_uses = [u \in Users |-> 0]
  /\ tickets = [u \in Users |-> 1]
  /\ membership = [u \in Users |-> FALSE]
  /\ timeslot_users = {}
  /\ time_slots = {}

Init ==
  /\ BaseInit
  /\ req = <<>>
  /\ probe = <<>>
  /\ StoreIdle

(* The clock advances to a later sampled instant. *)
Tick(t) ==
  /\ t > now
  /\ now' = t
  /\ resp' = Reply("tick", "ok", <<>>, FALSE)
  /\ UNCHANGED <<reserved_seats, next_user_notified, reservations,
                 order_lines, orders, refunds, wait_queue, notifications,
                 profiles>>
  /\ UNCHANGED aux

(* ----------------------- order booking (store app) --------------------- *)
GwCall(name, amount, target, ok) ==
  [call |-> name, amount |-> amount, target |-> target, ok |-> ok]

AlreadyRegistered(u, e) ==
  \E i \in Ids : /\ reservations[i].user = u
                 /\ reservations[i].retreat = e
                 /\ reservations[i].is_active

(* reserved_seats after a successful order booking of e *)
ConsumeReservedSeat(e) ==
  IF reserved_seats[e] > 0
  THEN [reserved_seats EXCEPT ![e] = @ - 1]
  ELSE reserved_seats

(* wait-queue subscription and notification record of (u, e) cleared *)
ClearWaitQueue(u, e) == [wait_queue EXCEPT ![e] = RemoveUser(@, u)]

(* faulty variant: the notifications of every user of the event are deleted *)
ClearNotifications_WholeEvent(u, e) ==
  {n \in notifications : n.retreat # e}

ClearNotifications(u, e) ==
  {n \in notifications : ~(n.user = u /\ n.retreat = e)}

(* Answer of POST /orders with one retirement line of quantity q, paid by
   payment_token; gwok is the gateway's answer to the charge. *)
OrderOutcome(u, e, q, gwok) ==
  LET charge == GwCall("charge", WithTax(price[e] * q), Len(orders) + 1, gwok)
      out(status, gw) == [status |-> status, gw |-> gw]
  IN
  IF AlreadyRegistered(u, e) THEN out("already_registered", <<>>)
  ELSE IF OverlapsActive(u, e, 0) THEN out("overlap", <<>>)
  ELSE IF ~Admitted(u, e) THEN out("no_places", <<>>)
  ELSE IF ~gwok THEN out("payment_error", <<charge>>)
  ELSE out("ok", <<charge>>)

(* rows written by a successful order *)
OrderEffects(u, e, q) ==
  /\ orders' = Append(orders, [user |-> u, settlement_id |-> Len(orders) + 1])
  /\ order_lines' = Append(order_lines,
       [order |-> Len(orders) + 1, quantity |-> q, retreat |-> e,
        cost |-> price[e] * q])
  /\ reservations' = Append(reservations, Row(u, e, TRUE, Len(order_lines) + 1))
  /\ reserved_seats' = ConsumeReservedSeat(e)
  /\ wait_queue' = ClearWaitQueue(u, e)
  /\ notifications' = ClearNotifications(u, e)

(* faulty variant: the rows are written before the charge and stay when the
   charge is declined *)
OrderCreate_KeepsRowsOnDecline(u, e, q, gwok) ==
  LET o == OrderOutcome(u, e, q, gwok) IN
  /\ resp' = Reply("order", o.status, o.gw, FALSE)
  /\ IF o.status \in {"ok", "payment_error"}
     THEN /\ Len(reservations) < MaxRows
          /\ OrderEffects(u, e, q)
     ELSE UNCHANGED <<reserved_seats, reservations, order_lines, orders,
                      wait_queue, notifications>>
  /\ UNCHANGED <<next_user_notified, refunds, profiles, now>>
  /\ UNCHANGED aux

OrderCreate(u, e, q, gwok) ==
  LET o == OrderOutcome(u, e, q, gwok) IN
  /\ resp' = Reply("order", o.status, o.gw, FALSE)
  /\ IF o.status = "ok"
     THEN /\ Len(reservations) < MaxRows
          /\ OrderEffects(u, e, q)
     ELSE UNCHANGED <<reserved_seats, reservations, order_lines, orders,
                      wait_queue, notifications>>
  /\ UNCHANGED <<next_user_notified, refunds, profiles, now>>
  /\ UNCHANGED aux

(* ------------------- cancellation (ReservationViewSet.destroy) --------- *)
(* rounded to the cent, half up *)
RoundDiv(n, d) == (2 * n + d) \div (2 * d)

(* refund_rate % of the price paid plus the tax on it, in cents *)
RefundValue(i) ==
  LET r == reservations[i]
      cost == order_lines[r.order_line].cost
  IN RoundDiv(cost * (TaxDen + TaxNum) * refund_rate[r.retreat], TaxDen * 100)

Refundable(i) ==
  LET ol == reservations[i].order_line IN
  /\ ol # NoLine
  /\ order_lines[ol].quantity = 1
  /\ ~\E k \in 1..Len(refunds) : refunds[k].orderline = ol

(* faulty variant: the deadline itself is already too late *)
RespectsMinimumDaysRefund_Strict(i) ==
  LET e == reservations[i].retreat IN
  start_time[e] - now > min_day_refund[e] * Day

RespectsMinimumDaysRefund(i) ==
  LET e == reservations[i].retreat IN
  start_time[e] - now >= min_day_refund[e] * Day

(* faulty variant: the is_active flag is not looked at *)
ReservationActive_Always(r) == TRUE

(* reservation_active = instance.is_active *)
ReservationActive(r) == r.is_active

(* faulty variant: off by one *)
QuantityAboveTwo(ol) == order_lines[ol].quantity > 2

(* order_line.quantity > 1: which unit is meant is ambiguous *)
QuantityAboveOne(ol) == order_lines[ol].quantity > 1

(* faulty variant: a freed seat is reserved only if seats are reserved
   already *)
ReserveFreedSeat_OnlyIfReserved(e, free_seats) ==
  IF reserved_seats[e] > 0
  THEN [reserved_seats EXCEPT ![e] = @ + 1]
  ELSE reserved_seats

(* reserved_seats after a seat of e was freed: retreat.places_remaining is
   read after the reservation was saved inactive *)
ReserveFreedSeat(e, free_seats) ==
  IF reserved_seats[e] > 0 \/ free_seats = 1
  THEN [reserved_seats EXCEPT ![e] = @ + 1]
  ELSE reserved_seats

(* faulty variant: a failed refund still cancels, without refund *)
Cancel_CancelsOnFailedRefund(i, gwok) ==
  LET r  == reservations[i]
      e  == r.retreat
      ol == r.order_line
      refundCall == GwCall("refund", RefundValue(i),
                           orders[order_lines[ol].order].settlement_id, gwok)
      cancelled(act) ==
        [r EXCEPT !.is_active = FALSE, !.cancelation_reason = "U",
                  !.cancelation_action = act, !.cancelation_date = now]
      free_seats == seats[e] - (total_reservations(e) - 1) - reserved_seats[e]
      done(act, status, gw) ==
        /\ reservations' = [reservations EXCEPT ![i] = cancelled(act)]
        /\ reserved_seats' = ReserveFreedSeat(e, free_seats)
        /\ resp' = Reply("cancel", status, gw, TRUE)
      fail(status, gw) ==
        /\ resp' = Reply("cancel", status, gw, FALSE)
        /\ UNCHANGED <<reservations, reserved_seats, refunds>>
  IN
  /\ IF ~ReservationActive(r)
     THEN /\ resp' = Reply("cancel", "ok", <<>>, FALSE)
          /\ UNCHANGED <<reservations, reserved_seats, refunds>>
     ELSE IF ol # NoLine /\ QuantityAboveOne(ol)
     THEN fail("quantity", <<>>)
     ELSE IF RespectsMinimumDaysRefund(i) /\ Refundable(i)
     THEN IF gwok
          THEN /\ refunds' = Append(refunds,
                    [orderline |-> ol, amount |-> RefundValue(i),
                     details |-> "canceled"])
               /\ done("R", "ok", <<refundCall>>)
          ELSE /\ refunds' = refunds
               /\ done("N", "payment_error", <<refundCall>>)
     ELSE /\ refunds' = refunds
          /\ done("N", "ok", <<>>)
  /\ UNCHANGED <<next_user_notified, order_lines, orders, wait_queue,
                 notifications, profiles, now>>
  /\ UNCHANGED aux

Cancel(i, gwok) ==
  LET r  == reservations[i]
      e  == r.retreat
      ol == r.order_line
      refundCall == GwCall("refund", RefundValue(i),
                           orders[order_lines[ol].order].settlement_id, gwok)
      cancelled(act) ==
        [r EXCEPT !.is_active = FALSE, !.cancelation_reason = "U",
                  !.cancelation_action = act, !.cancelation_date = now]
      free_seats == seats[e] - (total_reservations(e) - 1) - reserved_seats[e]
      done(act, gw) ==
        /\ reservations' = [reservations EXCEPT ![i] = cancelled(act)]
        /\ reserved_seats' = ReserveFreedSeat(e, free_seats)
        /\ resp' = Reply("cancel", "ok", gw, TRUE)
      fail(status, gw) ==
        /\ resp' = Reply("cancel", status, gw, FALSE)
        /\ UNCHANGED <<reservations, reserved_seats, refunds>>
  IN
  /\ IF ~ReservationActive(r)
     THEN /\ resp' = Reply("cancel", "ok", <<>>, FALSE)
          /\ UNCHANGED <<reservations, reserved_seats, refunds>>
     ELSE IF ol # NoLine /\ QuantityAboveOne(ol)
     THEN fail("quantity", <<>>)
     ELSE IF RespectsMinimumDaysRefund(i) /\ Refundable(i)
     THEN IF gwok
          THEN /\ refunds' = Append(refunds,
                    [orderline |-> ol, amount |-> RefundValue(i),
                     details |-> "canceled"])
               /\ done("R", <<refundCall>>)
          ELSE fail("payment_error", <<refundCall>>)
     ELSE /\ refunds' = refunds
          /\ done("N", <<>>)
  /\ UNCHANGED <<next_user_notified, order_lines, orders, wait_queue,
                 notifications, profiles, now>>
  /\ UNCHANGED aux

(* ------------- admin creation (ReservationViewSet.create) -------------- *)
(* rows left out of the overlap query by the exclude() on validated_data *)
ExcludedByData(x, u, e, act, ol) ==
  /\ x.user = u
  /\ x.retreat = e
  /\ x.is_active = act
  /\ x.order_line = ol

(* ReservationSerializer.validate, action # partial_update *)
ValidateCreate(u, e, act, ol) ==
  ~\E i \in Ids :
      /\ reservations[i].user = u
      /\ reservations[i].is_active
      /\ ~ExcludedByData(reservations[i], u, e, act, ol)
      /\ Overlaps(start_time[reservations[i].retreat],
                  end_time[reservations[i].retreat],
                  start_time[e], end_time[e])

ReservationCreate(u, e, act, ol) ==
  /\ IF ValidateCreate(u, e, act, ol)
     THEN /\ reservations' = Append(reservations, Row(u, e, act, ol))
          /\ resp' = Reply("create", "ok", <<>>, FALSE)
     ELSE /\ reservations' = reservations
          /\ resp' = Reply("create", "overlap", <<>>, FALSE)
  /\ UNCHANGED <<reserved_seats, next_user_notified, order_lines, orders,
                 refunds, wait_queue, notifications, profiles, now>>
  /\ UNCHANGED aux

(* ------------------------------ wait queue ----------------------------- *)
QueueTotal == Len(wait_queue["A"]) + Len(wait_queue["B"]) + Len(wait_queue["C"])

Subscribe(u, e) ==
  /\ ~InQueue(u, e)
  /\ QueueTotal < MaxQueue
  /\ wait_queue' = [wait_queue EXCEPT ![e] = Append(@, u)]
  /\ resp' = Reply("subscribe", "ok", <<>>, FALSE)
  /\ UNCHANGED <<reserved_seats, next_user_notified, reservations, order_lines,
                 orders, refunds, notifications, profiles, now>>
  /\ UNCHANGED aux

(* faulty variant: positions counted from one *)
QueuePos_OneBased(u, e) ==
  CHOOSE k \in 1..Len(wait_queue[e]) : wait_queue[e][k] = u

(* 0-based index of u in the created_at-ordered queue of e *)
QueuePos(u, e) ==
  (CHOOSE k \in 1..Len(wait_queue[e]) : wait_queue[e][k] = u) - 1

(* WaitQueueViewSet.destroy *)
Unsubscribe(u, e) ==
  /\ InQueue(u, e)
  /\ next_user_notified' =
       IF QueuePos(u, e) < next_user_notified[e]
       THEN [next_user_notified EXCEPT ![e] = @ - 1]
       ELSE next_user_notified
  /\ notifications' = ClearNotifications(u, e)
  /\ wait_queue' = ClearWaitQueue(u, e)
  /\ resp' = Reply("unsubscribe", "ok", <<>>, FALSE)
  /\ UNCHANGED <<reserved_seats, reservations, order_lines, orders, refunds,
                 profiles, now>>
  /\ UNCHANGED aux

(* faulty variant: everybody still waiting is notified *)
NotifyCount_AllWaiting(e) ==
  Max(0, Len(wait_queue[e]) - next_user_notified[e])

(* Retreat.notify_users: one notification per reserved seat, from the cursor on *)
NotifyCount(e) ==
  Max(0, Min(reserved_seats[e], Len(wait_queue[e]) - next_user_notified[e]))

NotifiedUsers(e) ==
  {wait_queue[e][k] : k \in (next_user_notified[e] + 1)..
                              (next_user_notified[e] + NotifyCount(e))}

(* notifications left by the purge of those older than the lifetime *)
KeptNotifications(e) ==
  LET remove_before == now - NOTIFICATION_LIFETIME_DAYS * Day IN
  {n \in notifications : ~(n.retreat = e /\ n.created_at < remove_before)}

(* faulty variant: the age of the last notification is not looked at *)
NotifyReady_Always(e) == TRUE

(* no notification of e is younger than 23 h 55 min *)
NotifyReady(e) ==
  LET time_limit == now - ThrottleMinutes IN
  ~\E n \in KeptNotifications(e) : n.retreat = e /\ n.created_at > time_limit

(* the rows written by RetreatViewSet.notify and its answer *)
NotifyRows(e) ==
  LET kept   == KeptNotifications(e)
      ready  == NotifyReady(e)
  IN
  /\ IF ready
     THEN /\ notifications' = kept \cup
               {[user |-> u, retreat |-> e, created_at |-> now] :
                  u \in NotifiedUsers(e)}
          /\ next_user_notified' =
               [next_user_notified EXCEPT ![e] = @ + NotifyCount(e)]
          /\ resp' = Reply("notify",
                           IF NotifyCount(e) > 0 THEN "ok" ELSE "no_reserved_seats",
                           <<>>, FALSE)
     ELSE /\ notifications' = kept
          /\ next_user_notified' = next_user_notified
          /\ resp' = Reply("notify", "too_soon", <<>>, FALSE)
  /\ UNCHANGED <<reserved_seats, reservations, order_lines, orders, refunds,
                 wait_queue, profiles, now>>

(* RetreatViewSet.notify *)
Notify(e) ==
  /\ NotifyRows(e)
  /\ UNCHANGED aux

(* ------------- exchange (ReservationSerializer.update) ----------------- *)
Tokens == {"none", "payment_token", "single_use_token"}

(* a request may carry both tokens *)
TokenPairs == Tokens \cup {"both"}

HasPaymentToken(tok) == tok \in {"payment_token", "both"}
HasSingleUseToken(tok) == tok \in {"single_use_token", "both"}

(* faulty variant: the target is never taken for the current event *)
SameRetirement_Never(e1, e2) == FALSE

(* instance.retirement == validated_data['retirement'] *)
SameRetirement(e1, e2) == e1 = e2

(* faulty variant: the deadline itself is already too late *)
RespectsMinimumDaysExchange_Strict(i) ==
  LET e == reservations[i].retreat IN
  start_time[e] - now > min_day_exchange[e] * Day

RespectsMinimumDaysExchange(i) ==
  LET e == reservations[i].retreat IN
  start_time[e] - now >= min_day_exchange[e] * Day

(* The row that keeps track of the exchange: a copy of the instance as it
   was, saved under a new primary key and then marked cancelled. *)
CanceledCopy(r) ==
  [r EXCEPT !.is_active = FALSE, !.cancelation_reason = "U",
            !.cancelation_action = "E", !.cancelation_date = now]

(* Outcome of PATCH {retirement: e2} on reservation i with the given token;
   fail is the position (1..) of the gateway call that fails, 0 for none. *)
ExchangeOutcome(i, e2, tok, fail) ==
  LET r   == reservations[i]
      u   == r.user
      e1  == r.retreat
      ol  == r.order_line
      need_transaction == price[e1] < price[e2]
      need_refund      == price[e1] > price[e2]
      diff    == IF need_transaction THEN price[e2] - price[e1]
                 ELSE price[e1] - price[e2]
      amount  == WithTax(diff)
      newProfile == need_transaction /\ HasSingleUseToken(tok) /\ u \notin profiles
      profCall == IF newProfile
                  THEN <<GwCall("create_profile", 0, u, fail # 1)>>
                  ELSE <<>>
      n0       == Len(profCall)
      cardCall == IF ~HasPaymentToken(tok) /\ HasSingleUseToken(tok)
                  THEN <<GwCall("add_card", 0, u, fail # n0 + 1)>>
                  ELSE <<>>
      n1       == n0 + Len(cardCall)
      chargeCall == GwCall("charge", amount, Len(orders) + 1, fail # n1 + 1)
      refundCall == GwCall("refund", amount,
                           orders[order_lines[ol].order].settlement_id,
                           fail # 1)
      out(status, gw) == [status |-> status, gw |-> gw]
  IN
  IF ol = NoLine THEN out("server_error", <<>>)
  ELSE IF QuantityAboveOne(ol) THEN out("quantity", <<>>)
  ELSE IF need_transaction /\ tok = "none" THEN out("token_required", <<>>)
  ELSE IF SameRetirement(e1, e2) THEN out("same_retirement", <<>>)
  ELSE IF ~RespectsMinimumDaysExchange(i) THEN out("exchange_date", <<>>)
  ELSE IF newProfile /\ fail = 1 THEN out("payment_error", profCall)
  ELSE IF OverlapsActive(u, e2, i) THEN out("overlap", profCall)
  ELSE IF need_transaction
  THEN IF ~Admitted(u, e2) THEN out("no_places", profCall)
       ELSE IF cardCall # <<>> /\ fail = n0 + 1
       THEN out("payment_error", profCall \o cardCall)
       ELSE IF fail = n1 + 1
       THEN out("payment_error", profCall \o cardCall \o <<chargeCall>>)
       ELSE out("ok", profCall \o cardCall \o <<chargeCall>>)
  ELSE IF need_refund
  THEN IF ~Admitted(u, e2) THEN out("no_places", <<>>)
       ELSE IF fail = 1 THEN out("payment_error", <<refundCall>>)
       ELSE out("ok", <<refundCall>>)
  ELSE out("ok", <<>>)

(* rows written by a successful exchange *)
ExchangeEffects(i, e2, tok) ==
  LET r   == reservations[i]
      u   == r.user
      e1  == r.retreat
      ol  == r.order_line
      need_transaction == price[e1] < price[e2]
      need_refund      == price[e1] > price[e2]
      newOrder == Len(orders) + 1
      newLine  == Len(order_lines) + 1
  IN
  /\ profiles' = IF need_transaction /\ HasSingleUseToken(tok)
                 THEN profiles \cup {u} ELSE profiles
  /\ orders' = IF need_transaction
               THEN Append(orders, [user |-> u, settlement_id |-> newOrder])
               ELSE orders
  /\ order_lines' = IF need_transaction
                    THEN Append(order_lines,
                           [order |-> newOrder, quantity |-> 1,
                            retreat |-> e2, cost |-> 0])
                    ELSE order_lines
  /\ refunds' = IF need_transaction
                THEN Append(refunds,
                       [orderline |-> ol, amount |-> WithTax(price[e1]),
                        details |-> "exchange"])
                ELSE IF need_refund
                THEN Append(refunds,
                       [orderline |-> ol,
                        amount |-> WithTax(price[e1] - price[e2]),
                        details |-> "exchange"])
                ELSE refunds
  /\ wait_queue' = IF need_transaction \/ need_refund
                   THEN ClearWaitQueue(u, e2) ELSE wait_queue
  /\ reservations' =
       Append([reservations EXCEPT
                 ![i] = [r EXCEPT !.retreat = e2,
                                  !.order_line = IF need_transaction
                                                 THEN newLine ELSE ol]],
              CanceledCopy(r))

(* faulty variant: the wait-queue entry deleted before the gateway call stays
   deleted when the call fails *)
Exchange_KeepsQueueDeletion(i, e2, tok, fail) ==
  LET o == ExchangeOutcome(i, e2, tok, fail) IN
  /\ resp' = Reply("exchange", o.status, o.gw, FALSE)
  /\ IF o.status = "ok"
     THEN /\ Len(reservations) <= MaxRows
          /\ ExchangeEffects(i, e2, tok)
     ELSE /\ wait_queue' = IF o.status = "payment_error"
                           THEN ClearWaitQueue(reservations[i].user, e2)
                           ELSE wait_queue
          /\ UNCHANGED <<reservations, order_lines, orders, refunds, profiles>>
  /\ UNCHANGED <<reserved_seats, next_user_notified, notifications, now>>
  /\ UNCHANGED aux

Exchange(i, e2, tok, fail) ==
  LET o == ExchangeOutcome(i, e2, tok, fail) IN
  /\ resp' = Reply("exchange", o.status, o.gw, FALSE)
  /\ IF o.status = "ok"
     THEN /\ Len(reservations) <= MaxRows
          /\ ExchangeEffects(i, e2, tok)
     ELSE UNCHANGED <<reservations, order_lines, orders, refunds, wait_queue,
                      profiles>>
  /\ UNCHANGED <<reserved_seats, next_user_notified, notifications, now>>
  /\ UNCHANGED aux

Next ==
  \/ \E t \in Instants : Tick(t)
  \/ \E u \in Users, l \in OrderLines, gwok \in GatewayAnswers :
       OrderCreate(u, l[1], l[2], gwok)
  \/ \E i \in Ids, gwok \in GatewayAnswers : Cancel(i, gwok)
  \/ \E i \in Ids, e \in Retreats, tok \in Tokens, fail \in FailingCalls :
       Exchange(i, e, tok, fail)
  \/ \E u \in CreateUsers, e \in CreateRetreats :
       /\ ValidateCreate(u, e, TRUE, NoLine) => Len(reservations) < MaxRows
       /\ ReservationCreate(u, e, TRUE, NoLine)
  \/ \E u \in WaitUsers, e \in WaitRetreats : Subscribe(u, e)
  \/ \E u \in Users, e \in Retreats : Unsubscribe(u, e)
  \/ \E e \in WaitRetreats : Notify(e)

Spec == Init /\ [][Next]_vars

(* --------------- the store: carts, coupons and tickets ----------------- *)
MaxOrders == 2

Products == {"membership", "package", "package2", "time_slot"}
product_type == [p \in Products |->
                   CASE p = "membership" -> "membership"
                     [] p = "time_slot"  -> "timeslot"
                     [] OTHER            -> "package"]
product_price == [p \in Products |->
                    CASE p = "membership" -> 5000
                      [] p = "package"    -> 4000
                      [] p = "package2"   -> 400000
                      [] OTHER            -> 100]
package_reservations == [p \in Products |->
                           CASE p = "package"  -> 100
                             [] p = "package2" -> 1000
                             [] OTHER          -> 0]
applicable_product_types == {"package"}

CartLine(p, q) == [product |-> p, quantity |-> q]

Carts ==
  {<<CartLine("membership", 1), CartLine("package", 2), CartLine("time_slot", 1)>>,
   <<CartLine("time_slot", 1)>>,
   <<CartLine("package", 2), CartLine("package2", 1)>>}

Coupon(v, p, m, mu) ==
  [value |-> v, percent_off |-> p, max_use |-> m, max_use_per_user |-> mu]

Coupons ==
  {Coupon(1000, 0, 0, 0), Coupon(500000, 0, 2, 0),
   Coupon(0, 100, 0, 1), Coupon(0, 33, 2, 1)}


(* a time-slot line is paid with a ticket: its cost is 0 *)
LineTotal(l) ==
  IF product_type[l.product] = "timeslot" THEN 0
  ELSE product_price[l.product] * l.quantity

Applicable(l) == product_type[l.product] \in applicable_product_types

(* faulty variant: the fixed value is taken off every unit *)
Discount_PerUnit(l) ==
  IF ~Applicable(l) THEN 0
  ELSE IF coupon.value > 0 THEN Min(coupon.value * l.quantity, LineTotal(l))
  ELSE RoundDiv(LineTotal(l) * coupon.percent_off, 100)

(* faulty variant: the fixed value is not capped at the line's total *)
Discount_Uncapped(l) ==
  IF ~Applicable(l) THEN 0
  ELSE IF coupon.value > 0 THEN coupon.value
  ELSE RoundDiv(LineTotal(l) * coupon.percent_off, 100)

(* the discount the coupon gives on line l: the fixed value once per line,
   capped at the line's total, or percent_off % of the line's total *)
Discount(l) ==
  IF ~Applicable(l) THEN 0
  ELSE IF coupon.value > 0 THEN Min(coupon.value, LineTotal(l))
  ELSE RoundDiv(LineTotal(l) * coupon.percent_off, 100)

(* faulty variant: the first applicable line, whatever its discount *)
CouponLine_FirstApplicable(cart) ==
  LET app == {k \in 1..Len(cart) : Applicable(cart[k])} IN
  IF app = {} THEN 0
  ELSE CHOOSE k \in app : \A j \in app : k <= j

(* the applicable line with the largest discount (the first of them), 0 when
   the coupon applies to no line *)
CouponLine(cart) ==
  LET app == {k \in 1..Len(cart) : Applicable(cart[k])} IN
  IF app = {} THEN 0
  ELSE CHOOSE k \in app :
         \A j \in app : \/ Discount(cart[j]) < Discount(cart[k])
                        \/ (Discount(cart[j]) = Discount(cart[k]) /\ k <= j)

TotalUses == coupon_uses["u1"] + coupon_uses["u2"]

(* faulty variant: one use more than the cap is let through *)
ValidUse_Inclusive(u) ==
  /\ coupon.max_use_per_user = 0 \/ coupon_uses[u] <= coupon.max_use_per_user
  /\ coupon.max_use = 0 \/ TotalUses <= coupon.max_use

(* uses below both caps; a cap of 0 is no cap *)
ValidUse(u) ==
  /\ coupon.max_use_per_user = 0 \/ coupon_uses[u] < coupon.max_use_per_user
  /\ coupon.max_use = 0 \/ TotalUses < coupon.max_use

CouponStatus(u, cart) ==
  IF ~ValidUse(u) THEN "coupon_usage_exceeded"
  ELSE IF CouponLine(cart) = 0 THEN "coupon_not_applicable"
  ELSE "ok"

(* faulty variant: one use is counted for every line of the cart *)
CouponUsed_PerLine(u, cart, with_coupon) ==
  IF with_coupon
  THEN [coupon_uses EXCEPT ![u] = @ + Len(cart)]
  ELSE coupon_uses

(* the usage counters after a successful order *)
CouponUsed(u, cart, with_coupon) ==
  IF with_coupon
  THEN [coupon_uses EXCEPT ![u] = @ + 1]
  ELSE coupon_uses

(* cost and realized discount of line k of the cart *)
LineDiscount(cart, k, with_coupon) ==
  IF with_coupon /\ CouponLine(cart) = k THEN Discount(cart[k]) ELSE 0
LineCost(cart, k, with_coupon) ==
  Max(0, LineTotal(cart[k]) - LineDiscount(cart, k, with_coupon))

RECURSIVE CartCost(_, _, _)
CartCost(cart, k, with_coupon) ==
  IF k = 0 THEN 0
  ELSE CartCost(cart, k - 1, with_coupon) + LineCost(cart, k, with_coupon)

(* total charge in cents: the costs plus tax, rounded half up *)
OrderAmount(cart, with_coupon) ==
  RoundDiv(CartCost(cart, Len(cart), with_coupon) * (TaxDen + TaxNum), TaxDen)

RECURSIVE TicketsBought(_, _)
TicketsBought(cart, k) ==
  IF k = 0 THEN 0
  ELSE TicketsBought(cart, k - 1)
         + package_reservations[cart[k].product] * cart[k].quantity

TimeSlotLines(cart) ==
  Cardinality({k \in 1..Len(cart) : product_type[cart[k].product] = "timeslot"})

HasMembershipLine(cart) ==
  \E k \in 1..Len(cart) : product_type[cart[k].product] = "membership"

(* faulty variant: the quantity of a package line is not counted *)
TicketsAfter_OnePerLine(u, cart) ==
  tickets[u] + TicketsBought([k \in 1..Len(cart) |-> CartLine(cart[k].product, 1)],
                             Len(cart))
    - TimeSlotLines(cart)

(* the user's tickets after the order *)
TicketsAfter(u, cart) ==
  tickets[u] + TicketsBought(cart, Len(cart)) - TimeSlotLines(cart)

(* faulty variant: the gateway is called whatever the amount *)
NeedsGateway_Always(amount) == TRUE

(* a positive amount is charged at the gateway *)
NeedsGateway(amount) == amount > 0

(* gateway calls of an order of `amount` cents paid with tok; card is the
   gateway's answer to the registration of the card, charge_ok its answer to
   the charge *)
OrderGateway(u, amount, tok, card, charge_ok) ==
  LET profCall == IF tok = "single_use_token" /\ u \notin profiles
                  THEN <<GwCall("create_profile", 0, u, TRUE)>>
                  ELSE <<>>
      cardCalls == IF tok # "single_use_token" THEN <<>>
                   ELSE IF card = "created"
                   THEN <<GwCall("add_card", 0, u, TRUE)>>
                   ELSE <<GwCall("add_card", 0, u, FALSE),
                          GwCall("get_card", 0, u, TRUE),
                          GwCall("delete_card", 0, u, TRUE),
                          GwCall("add_card", 0, u, TRUE)>>
  IN profCall \o cardCalls
       \o <<GwCall("charge", amount, Len(orders) + 1, charge_ok)>>

(* Answer of POST /orders with a cart of membership, package and time-slot
   lines. *)
CartOutcome(u, cart, with_coupon, tok, card, charge_ok) ==
  LET amount == OrderAmount(cart, with_coupon)
      out(status, gw) == [status |-> status, gw |-> gw]
  IN
  IF with_coupon /\ CouponStatus(u, cart) # "ok"
  THEN out(CouponStatus(u, cart), <<>>)
  ELSE IF TimeSlotLines(cart) > 0 /\ u \in timeslot_users
  THEN out("already_registered", <<>>)
  ELSE IF TimeSlotLines(cart) > tickets[u] THEN out("not_enough_tickets", <<>>)
  ELSE IF ~NeedsGateway(amount) THEN out("ok", <<>>)
  ELSE IF tok = "none" THEN out("token_required", <<>>)
  ELSE IF ~charge_ok
  THEN out("payment_error", OrderGateway(u, amount, tok, card, charge_ok))
  ELSE out("ok", OrderGateway(u, amount, tok, card, charge_ok))

(* rows written by a successful cart order *)
CartEffects(u, cart, with_coupon, tok) ==
  LET amount == OrderAmount(cart, with_coupon)
      id     == IF NeedsGateway(amount) THEN Len(orders) + 1 ELSE 0
  IN
  /\ orders' = Append(orders,
       [user |-> u, authorization_id |-> id, settlement_id |-> id,
        reference_number |-> id])
  /\ order_lines' = order_lines \o
       [k \in 1..Len(cart) |->
          [order |-> Len(orders) + 1, quantity |-> cart[k].quantity,
           product |-> cart[k].product,
           coupon |-> with_coupon /\ CouponLine(cart) = k,
           coupon_real_value |-> LineDiscount(cart, k, with_coupon),
           cost |-> LineCost(cart, k, with_coupon)]]
  /\ coupon_uses' = CouponUsed(u, cart, with_coupon)
  /\ tickets' = [tickets EXCEPT ![u] = TicketsAfter(u, cart)]
  /\ membership' = IF HasMembershipLine(cart)
                   THEN [membership EXCEPT ![u] = TRUE]
                   ELSE membership
  /\ timeslot_users' = IF TimeSlotLines(cart) > 0
                       THEN timeslot_users \cup {u}
                       ELSE timeslot_users
  /\ profiles' = IF NeedsGateway(amount) /\ tok = "single_use_token"
                 THEN profiles \cup {u}
                 ELSE profiles

CartOrderCreate(u, cart, with_coupon, tok, card, charge_ok) ==
  LET o == CartOutcome(u, cart, with_coupon, tok, card, charge_ok) IN
  /\ resp' = Reply("order", o.status, o.gw, FALSE)
  /\ IF o.status = "ok"
     THEN /\ Len(orders) < MaxOrders
          /\ CartEffects(u, cart, with_coupon, tok)
     ELSE UNCHANGED <<orders, order_lines, coupon_uses, tickets, membership,
                      timeslot_users, profiles>>
  /\ UNCHANGED <<reserved_seats, next_user_notified, reservations, refunds,
                 wait_queue, notifications, now, req, probe, coupon,
                 time_slots>>

(* POST /orders/validate_coupon: the line the coupon would be applied to and
   the discount, nothing is written *)
ValidateCoupon(u, cart) ==
  LET st == CouponStatus(u, cart) IN
  /\ resp' = [op |-> "validate_coupon", status |-> st, gw |-> <<>>,
               sched |-> FALSE,
               orderline |-> IF st = "ok" THEN CouponLine(cart) ELSE 0,
               value |-> IF st = "ok" THEN Discount(cart[CouponLine(cart)]) ELSE 0]
  /\ UNCHANGED <<reserved_seats, next_user_notified, reservations,
                 order_lines, orders, refunds, wait_queue, notifications,
                 profiles, now>>
  /\ UNCHANGED aux

(* the store without retreat lines: nothing reserved, nobody waiting *)
StoreBase ==
  /\ reserved_seats = [e \in Retreats |-> 0]
  /\ next_user_notified = [e \in Retreats |-> 0]
  /\ reservations = <<>>
  /\ order_lines = <<>>
  /\ orders = <<>>
  /\ refunds = <<>>
  /\ wait_queue = [e \in Retreats |-> <<>>]
  /\ notifications = {}
  /\ profiles = {}
  /\ now = 0
  /\ resp = Reply("init", "ok", <<>>, FALSE)
  /\ req = <<>>
  /\ probe = <<>>
  /\ membership = [u \in Users |-> FALSE]
  /\ timeslot_users = {}
  /\ time_slots = {}
  /\ tickets = [u \in Users |-> IF u = "u1" THEN 1 ELSE 0]

(* orders with a coupon, paid with a stored card *)
CouponInit ==
  /\ StoreBase
  /\ coupon \in Coupons
  /\ coupon_uses = [u \in Users |-> 0]

CouponNext ==
  \/ \E u \in Users, cart \in Carts, with_coupon \in BOOLEAN, charge_ok \in BOOLEAN :
       CartOrderCreate(u, cart, with_coupon, "payment_token", "created", charge_ok)
  \/ \E u \in Users, cart \in Carts : ValidateCoupon(u, cart)

SpecCoupon == CouponInit /\ [][CouponNext]_vars

(* orders by the ways of paying them *)
PayCarts ==
  {<<CartLine("membership", 1), CartLine("package", 2), CartLine("time_slot", 1)>>,
   <<CartLine("time_slot", 1)>>,
   <<CartLine("package", 2)>>}

(* token, answer to the registration of the card, answer to the charge *)
Payments ==
  {<<"none", "created", TRUE>>,
   <<"payment_token", "created", TRUE>>,
   <<"payment_token", "created", FALSE>>,
   <<"single_use_token", "created", TRUE>>,
   <<"single_use_token", "already_exists", TRUE>>}

PayInit ==
  /\ StoreBase
  /\ coupon = Coupon(0, 100, 0, 0)
  /\ coupon_uses = [u \in Users |-> 0]

PayNext ==
  \E u \in Users, cart \in PayCarts, with_coupon \in BOOLEAN, pay \in Payments :
    CartOrderCreate(u, cart, with_coupon, pay[1], pay[2], pay[3])

SpecPay == PayInit /\ [][PayNext]_vars

(* ------------- orders and cancellations with a failing gateway -------- *)
OrderNext ==
  \/ \E t \in Instants : Tick(t)
  \/ \E u \in Users, l \in OrderLines, gwok \in BOOLEAN :
       OrderCreate(u, l[1], l[2], gwok)
  \/ \E i \in Ids, gwok \in BOOLEAN : Cancel(i, gwok)

SpecOrder == Init /\ [][OrderNext]_vars

(* ------------------- the wait-queue scheduler on its own --------------- *)
QueueReservedSeats == {0, 1, 2}
QueueInstants == {0, 2 * Day + 720, 3 * Day + 1}

QueueInit ==
  /\ reserved_seats \in
       {[e \in Retreats |-> IF e \in WaitRetreats THEN r ELSE 0] :
          r \in QueueReservedSeats}
  /\ next_user_notified = [e \in Retreats |-> 0]
  /\ reservations = <<>>
  /\ order_lines = <<>>
  /\ orders = <<>>
  /\ refunds = <<>>
  /\ wait_queue = [e \in Retreats |-> <<>>]
  /\ notifications = {}
  /\ profiles = {}
  /\ now = 0
  /\ resp = Reply("init", "ok", <<>>, FALSE)
  /\ req = <<>>
  /\ probe = <<>>
  /\ StoreIdle

QueueNext ==
  \/ \E t \in QueueInstants : Tick(t)
  \/ \E u \in Users, e \in WaitRetreats : Subscribe(u, e)
  \/ \E u \in Users, e \in WaitRetreats : Unsubscribe(u, e)
  \/ \E e \in WaitRetreats : Notify(e)

SpecQueue == QueueInit /\ [][QueueNext]_vars

(* ------------- subscriptions to two events side by side ---------------- *)
UnsubRetreats == {"A", "B"}
UnsubReservedSeats == {1, 2}

UnsubInit ==
  /\ reserved_seats \in
       {[e \in Retreats |-> IF e \in UnsubRetreats THEN r ELSE 0] :
          r \in UnsubReservedSeats}
  /\ next_user_notified = [e \in Retreats |-> 0]
  /\ reservations = <<>>
  /\ order_lines = <<>>
  /\ orders = <<>>
  /\ refunds = <<>>
  /\ wait_queue = [e \in Retreats |-> <<>>]
  /\ notifications = {}
  /\ profiles = {}
  /\ now = 0
  /\ resp = Reply("init", "ok", <<>>, FALSE)
  /\ req = <<>>
  /\ probe = <<>>
  /\ StoreIdle

UnsubNext ==
  \/ \E u \in Users, e \in UnsubRetreats : Subscribe(u, e)
  \/ \E u \in Users, e \in UnsubRetreats : Unsubscribe(u, e)
  \/ \E e \in UnsubRetreats : Notify(e)

SpecUnsub == UnsubInit /\ [][UnsubNext]_vars

(* ------------- the administrative endpoints on their own --------------- *)
AdminNext ==
  \/ \E u \in Users, e \in Retreats, act \in BOOLEAN :
       /\ ValidateCreate(u, e, act, NoLine) => Len(reservations) < MaxAdminRows
       /\ ReservationCreate(u, e, act, NoLine)
  \/ \E i \in Ids, gwok \in GatewayAnswers : Cancel(i, gwok)

SpecAdmin == Init /\ [][AdminNext]_vars

(* ------------------ the overlap test on its own ------------------------ *)
MaxTime == 4

Intervals == {<<a, b>> \in (0..MaxTime) \X (0..MaxTime) : a < b}

QuietInit ==
  /\ reserved_seats = [e \in Retreats |-> 0]
  /\ next_user_notified = [e \in Retreats |-> 0]
  /\ wait_queue = [e \in Retreats |-> <<>>]
  /\ notifications = {}
  /\ profiles = {}
  /\ refunds = <<>>
  /\ now = 0
  /\ resp = Reply("init", "ok", <<>>, FALSE)

OverlapInit ==
  /\ QuietInit
  /\ StoreIdle
  /\ reservations = <<>>
  /\ order_lines = <<>>
  /\ orders = <<>>
  /\ req = <<>>
  /\ \E x \in Intervals, y \in Intervals :
       probe = [existing |-> x, requested |-> y, done |-> FALSE,
                overlap |-> FALSE, swapped |-> FALSE]

(* the loop body of validate()/update() on one existing reservation, and the
   same test with the two intervals exchanged *)
CheckOverlap ==
  /\ ~probe.done
  /\ probe' = [probe EXCEPT
       !.done = TRUE,
       !.overlap = Overlaps(probe.existing[1], probe.existing[2],
                            probe.requested[1], probe.requested[2]),
       !.swapped = Overlaps(probe.requested[1], probe.requested[2],
                            probe.existing[1], probe.existing[2])]
  /\ UNCHANGED <<reserved_seats, next_user_notified, reservations,
                 order_lines, orders, refunds, wait_queue, notifications,
                 profiles, now, resp, req>>
  /\ UNCHANGED store

OverlapNext == CheckOverlap

SpecOverlap == OverlapInit /\ [][OverlapNext]_vars

(* ------------- two requests racing for the last seat ------------------- *)
Procs == {1, 2}
UserOf == [p \in Procs |-> IF p = 1 THEN "u1" ELSE "u2"]
Kinds == {"order", "exchange_payment_token", "exchange_single_use_token"}
LastSeatRetreat == "A"
HeldRetreat == "C"

IsExchange(k) == k # "order"
TokenOf(k) == IF k = "exchange_payment_token" THEN "payment_token"
              ELSE "single_use_token"

(* an exchanging user holds a paid reservation of HeldRetreat *)
HeldRows(k) ==
  (IF IsExchange(k[1]) THEN <<1>> ELSE <<>>) \o
  (IF IsExchange(k[2]) THEN <<2>> ELSE <<>>)

ConcInit ==
  /\ QuietInit
  /\ StoreIdle
  /\ probe = <<>>
  /\ \E k \in [Procs -> Kinds] :
       LET held == HeldRows(k) IN
       /\ reservations = [j \in 1..Len(held) |->
                            Row(UserOf[held[j]], HeldRetreat, TRUE, j)]
       /\ orders = [j \in 1..Len(held) |->
                      [user |-> UserOf[held[j]], settlement_id |-> j]]
       /\ order_lines = [j \in 1..Len(held) |->
                           [order |-> j, quantity |-> 1,
                            retreat |-> HeldRetreat, cost |-> price[HeldRetreat]]]
       /\ req = [p \in Procs |->
                   [kind |-> k[p], pc |-> "start", status |-> "none",
                    row |-> IF IsExchange(k[p])
                            THEN (CHOOSE j \in 1..Len(held) : held[j] = p)
                            ELSE 0]]

(* The request runs its validations and its availability query against the
   committed rows; nothing it wrote so far is visible to the other request. *)
ConcCheck(p) ==
  LET k == req[p].kind
      o == IF IsExchange(k)
           THEN ExchangeOutcome(req[p].row, LastSeatRetreat, TokenOf(k), 0)
           ELSE OrderOutcome(UserOf[p], LastSeatRetreat, 1, TRUE)
  IN
  /\ req[p].pc = "start"
  /\ req' = [req EXCEPT ![p] =
               [@ EXCEPT !.pc = IF o.status = "ok" THEN "checked" ELSE "done",
                         !.status = IF o.status = "ok" THEN "none" ELSE o.status]]
  /\ UNCHANGED <<reserved_seats, next_user_notified, reservations,
                 order_lines, orders, refunds, wait_queue, notifications,
                 profiles, now, resp, probe>>
  /\ UNCHANGED store

(* The request charges the card, writes its rows and commits. *)
ConcCommit(p) ==
  LET k == req[p].kind IN
  /\ req[p].pc = "checked"
  /\ req' = [req EXCEPT ![p] = [@ EXCEPT !.pc = "done", !.status = "ok"]]
  /\ IF IsExchange(k)
     THEN /\ ExchangeEffects(req[p].row, LastSeatRetreat, TokenOf(k))
          /\ UNCHANGED <<reserved_seats, notifications>>
     ELSE /\ OrderEffects(UserOf[p], LastSeatRetreat, 1)
          /\ UNCHANGED <<refunds, profiles>>
  /\ resp' = Reply(IF IsExchange(k) THEN "exchange" ELSE "order", "ok", <<>>, FALSE)
  /\ UNCHANGED <<next_user_notified, now, probe>>
  /\ UNCHANGED store

ConcNext ==
  \/ \E p \in Procs : ConcCheck(p)
  \/ \E p \in Procs : ConcCommit(p)

SpecConc == ConcInit /\ [][ConcNext]_vars

(* ---------------- requests whose notification e-mail fails ------------- *)
MailAnswers == BOOLEAN

(* reservation_active and instance.cancelation_action == 'R' *)
SendsRefundMail(i, gwok) ==
  LET r  == reservations[i]
      ol == r.order_line
  IN /\ ReservationActive(r)
     /\ ~(ol # NoLine /\ QuantityAboveOne(ol))
     /\ RespectsMinimumDaysRefund(i)
     /\ Refundable(i)
     /\ gwok

(* destroy() when the mail of send_refund_confirmation_email is or is not
   delivered: the mail is sent after the atomic block; a failure is logged
   and raised again *)
CancelMail(i, gwok, mailok) ==
  IF mailok \/ ~SendsRefundMail(i, gwok)
  THEN Cancel(i, gwok)
  ELSE LET r  == reservations[i]
           e  == r.retreat
           ol == r.order_line
           free_seats == seats[e] - (total_reservations(e) - 1) - reserved_seats[e]
       IN
       /\ refunds' = Append(refunds,
            [orderline |-> ol, amount |-> RefundValue(i), details |-> "canceled"])
       /\ reservations' = [reservations EXCEPT ![i] =
            [r EXCEPT !.is_active = FALSE, !.cancelation_reason = "U",
                      !.cancelation_action = "R", !.cancelation_date = now]]
       /\ reserved_seats' = ReserveFreedSeat(e, free_seats)
       /\ resp' = Reply("cancel", "server_error",
            <<GwCall("refund", RefundValue(i),
                     orders[order_lines[ol].order].settlement_id, TRUE)>>, TRUE)
       /\ UNCHANGED <<next_user_notified, order_lines, orders, wait_queue,
                      notifications, profiles, now>>
       /\ UNCHANGED aux

(* update() when one of its send_mail calls fails: the exception leaves the
   atomic update(), whose rows are rolled back; the gateway calls were made *)
ExchangeMail(i, e2, tok, fail, mailok) ==
  LET o == ExchangeOutcome(i, e2, tok, fail) IN
  IF mailok \/ o.status # "ok"
  THEN Exchange(i, e2, tok, fail)
  ELSE /\ resp' = Reply("exchange", "server_error", o.gw, FALSE)
       /\ UNCHANGED <<reservations, order_lines, orders, refunds, wait_queue,
                      profiles>>
       /\ UNCHANGED <<reserved_seats, next_user_notified, notifications, now>>
       /\ UNCHANGED aux

MailNext ==
  \/ \E t \in Instants : Tick(t)
  \/ \E u \in Users, l \in OrderLines, gwok \in GatewayAnswers :
       OrderCreate(u, l[1], l[2], gwok)
  \/ \E i \in Ids, gwok \in BOOLEAN, mailok \in MailAnswers :
       CancelMail(i, gwok, mailok)
  \/ \E i \in Ids, e \in Retreats, tok \in Tokens, mailok \in MailAnswers :
       ExchangeMail(i, e, tok, 0, mailok)

SpecMail == Init /\ [][MailNext]_vars

(* --------------- exchanges with a gateway that may fail ---------------- *)
(* position of the gateway call that fails, 0 for none *)
GatewayFailures == 0..3
InitProfiles == {{}, {"u1"}}
(* the event with a free seat that exchanging users may be waiting for *)
GatewayWaitRetreats == {"A"}

GatewayInit ==
  /\ reserved_seats \in InitReservedSeats
  /\ next_user_notified = [e \in Retreats |-> 0]
  /\ reservations = <<>>
  /\ order_lines = <<>>
  /\ orders = <<>>
  /\ refunds = <<>>
  /\ wait_queue = [e \in Retreats |-> <<>>]
  /\ notifications = {}
  /\ profiles \in InitProfiles
  /\ now = 0
  /\ resp = Reply("init", "ok", <<>>, FALSE)
  /\ req = <<>>
  /\ probe = <<>>
  /\ StoreIdle

GatewayNext ==
  \/ \E t \in Instants : Tick(t)
  \/ \E u \in Users, l \in OrderLines, gwok \in GatewayAnswers :
       OrderCreate(u, l[1], l[2], gwok)
  \/ \E i \in Ids, e \in Retreats, tok \in TokenPairs, fail \in GatewayFailures :
       Exchange(i, e, tok, fail)
  \/ \E u \in Users, e \in GatewayWaitRetreats : Subscribe(u, e)

SpecGateway == GatewayInit /\ [][GatewayNext]_vars

(* ------------------- time slots of a period (workplace) ---------------- *)
Periods == {"period", "period_active"}

TimeSlot(p, s, e) == [period |-> p, start_time |-> s, end_time |-> e]

(* faulty variant: only a new start inside an existing slot is refused *)
TimeSlotOverlaps_StartInside(x, p, s, e) ==
  /\ x.period = p
  /\ x.start_time <= s
  /\ s < x.end_time

(* an existing slot of the same period overlaps [s, e) *)
TimeSlotOverlaps(x, p, s, e) ==
  /\ x.period = p
  /\ Overlaps(x.start_time, x.end_time, s, e)

(* POST /time_slots *)
TimeSlotCreate(p, s, e) ==
  /\ IF \E x \in time_slots : TimeSlotOverlaps(x, p, s, e)
     THEN /\ resp' = Reply("time_slot", "overlap", <<>>, FALSE)
          /\ time_slots' = time_slots
     ELSE /\ resp' = Reply("time_slot", "ok", <<>>, FALSE)
          /\ time_slots' = time_slots \cup {TimeSlot(p, s, e)}
  /\ UNCHANGED <<reserved_seats, next_user_notified, reservations,
                 order_lines, orders, refunds, wait_queue, notifications,
                 profiles, now, req, probe>>
  /\ UNCHANGED <<coupon, coupon_uses, tickets, membership, timeslot_users>>

SlotNext == \E p \in Periods, iv \in Intervals : TimeSlotCreate(p, iv[1], iv[2])

SpecSlot == Init /\ [][SlotNext]_vars

(* ------------- the scheduler, with the time of its last run ------------ *)
Never == -1

ThrottleInit ==
  /\ reserved_seats \in
       {[e \in Retreats |-> IF e \in WaitRetreats THEN r ELSE 0] :
          r \in QueueReservedSeats}
  /\ next_user_notified = [e \in Retreats |-> 0]
  /\ reservations = <<>>
  /\ order_lines = <<>>
  /\ orders = <<>>
  /\ refunds = <<>>
  /\ wait_queue = [e \in Retreats |-> <<>>]
  /\ notifications = {}
  /\ profiles = {}
  /\ now = 0
  /\ resp = Reply("init", "ok", <<>>, FALSE)
  /\ req = <<>>
  /\ probe = [e \in Retreats |-> Never]
  /\ StoreIdle

(* RetreatViewSet.notify; probe[e] keeps the instant at which notify_users
   ran last for e *)
NotifyLogged(e) ==
  /\ NotifyRows(e)
  /\ probe' = IF NotifyReady(e) THEN [probe EXCEPT ![e] = now] ELSE probe
  /\ UNCHANGED <<req, store>>

ThrottleNext ==
  \/ \E t \in QueueInstants : Tick(t)
  \/ \E u \in Users, e \in WaitRetreats : Subscribe(u, e)
  \/ \E u \in Users, e \in WaitRetreats : Unsubscribe(u, e)
  \/ \E e \in WaitRetreats : NotifyLogged(e)

SpecThrottle == ThrottleInit /\ [][ThrottleNext]_vars

(* ------------- partial and full update of a reservation ---------------- *)
(* the sets of writable fields a request may carry *)
RequestFields ==
  {{"is_present"}, {"payment_token"}, {"is_present", "single_use_token"},
   {"is_active"}, {"is_present", "is_active"}, {"user", "retirement"},
   {"is_present", "user"}}

(* faulty variant: is_active may be updated as well *)
UpdatableFields_WithIsActive ==
  {"is_present", "retirement", "payment_token", "single_use_token", "is_active"}

(* the fields validate() pops before it looks for improper ones *)
UpdatableFields ==
  {"is_present", "retirement", "payment_token", "single_use_token"}

(* PATCH of reservation i with the given fields, every boolean field set to
   v; a valid request that names a retirement is the exchange *)
PartialUpdate(i, fields, staff, v) ==
  LET r       == reservations[i]
      invalid == fields \ UpdatableFields
      data    == IF staff THEN fields ELSE fields \ {"is_present"}
  IN
  /\ invalid # {} \/ "retirement" \notin fields
  /\ IF invalid # {}
     THEN /\ resp' = Reply("partial_update", "invalid_fields", <<>>, FALSE)
          /\ reservations' = reservations
     ELSE /\ resp' = Reply("partial_update", "ok", <<>>, FALSE)
          /\ reservations' = [reservations EXCEPT ![i] =
               [r EXCEPT !.is_present = IF "is_present" \in data THEN v ELSE @,
                         !.is_active  = IF "is_active" \in data THEN v ELSE @]]
  /\ UNCHANGED <<reserved_seats, next_user_notified, order_lines, orders,
                 refunds, wait_queue, notifications, profiles, now>>
  /\ UNCHANGED aux

(* PUT of reservation i *)
FullUpdate(i) ==
  /\ resp' = Reply("update", "method_not_allowed", <<>>, FALSE)
  /\ UNCHANGED <<reserved_seats, next_user_notified, reservations,
                 order_lines, orders, refunds, wait_queue, notifications,
                 profiles, now>>
  /\ UNCHANGED aux

UpdateNext ==
  \/ \E u \in Users, l \in OrderLines, gwok \in GatewayAnswers :
       OrderCreate(u, l[1], l[2], gwok)
  \/ \E i \in Ids, fields \in RequestFields, staff \in BOOLEAN,
        v \in BOOLEAN : PartialUpdate(i, fields, staff, v)
  \/ \E i \in Ids : FullUpdate(i)

SpecUpdate == Init /\ [][UpdateNext]_vars

(* ======================= seats and reserved seats ====================== *)
ActiveCount(e) ==
  Cardinality({i \in Ids : reservations[i].retreat = e /\ reservations[i].is_active})

SeatInv(e) ==
  /\ ActiveCount(e) + reserved_seats[e] <= seats[e]
  /\ reserved_seats[e] >= 0

SeatOps == {"order", "cancel", "exchange", "notify", "unsubscribe"}

(* C1: for every event, a booking, cancellation, exchange, notify call or
   unsubscribe that starts in a state where active reservations +
   reserved_seats <= seats and reserved_seats >= 0 ends in such a state. *)
C1_SeatsNeverOversold ==
  [][\A e \in Retreats :
       (resp'.op \in SeatOps /\ SeatInv(e)) => SeatInv(e)']_vars

(* C2: two requests of different users against an event with exactly one
   remaining seat: once both have answered, exactly one succeeded and the
   other got the no-places-left error. *)
C2_LastSeatExactlyOne ==
  (DOMAIN req = Procs /\ \A p \in Procs : req[p].pc = "done") =>
    \E p \in Procs :
      /\ req[p].status = "ok"
      /\ \A o \in Procs \ {p} : req[o].status = "no_places"

(* C4: the overlap test is half-open: it reports an overlap exactly when each
   interval starts before the other ends, so intervals touching at an
   endpoint are accepted, identical or nested ones rejected, and the answer
   does not depend on which interval is the existing one. *)
C4_HalfOpenOverlap ==
  (probe # <<>> /\ probe.done) =>
    LET s1 == probe.existing[1]
        e1 == probe.existing[2]
        s2 == probe.requested[1]
        e2 == probe.requested[2]
    IN /\ probe.overlap <=> (s1 < e2 /\ s2 < e1)
       /\ (e1 = s2 \/ e2 = s1) => ~probe.overlap
       /\ (s1 <= s2 /\ e2 <= e1) => probe.overlap
       /\ (s2 <= s1 /\ e1 <= e2) => probe.overlap
       /\ probe.overlap = probe.swapped

C4_Witness ==
  /\ probe # <<>>
  /\ probe.done
  /\ probe.existing[2] = probe.requested[1]
  /\ ~probe.overlap

(* ========================= overlapping reservations ==================== *)
(* C3: no two active reservations of one user have overlapping
   [start_time, end_time) intervals. *)
C3_NoOverlappingActive ==
  \A i \in Ids, j \in Ids :
    (/\ i # j
     /\ reservations[i].user = reservations[j].user
     /\ reservations[i].is_active
     /\ reservations[j].is_active)
    => ~(/\ start_time[reservations[i].retreat] < end_time[reservations[j].retreat]
         /\ start_time[reservations[j].retreat] < end_time[reservations[i].retreat])

(* ============================ availability ============================= *)
Notified(u, e) == \E n \in notifications : n.user = u /\ n.retreat = e

SeatAvailableFor(u, e) ==
  \/ seats[e] - ActiveCount(e) - reserved_seats[e] > 0
  \/ (reserved_seats[e] > 0 /\ Notified(u, e))

HoldsOverlapping(u, e) ==
  \E i \in Ids :
    /\ reservations[i].user = u
    /\ reservations[i].is_active
    /\ start_time[reservations[i].retreat] < end_time[e]
    /\ start_time[e] < end_time[reservations[i].retreat]

(* C5: an order booking of e by u that passes the overlap check and whose
   charge is accepted succeeds iff places_remaining > 0, or reserved_seats > 0
   and u holds a notification for e; otherwise it answers no-places-left and
   creates no reservation.  The availability check of an exchange that
   charges or refunds a price difference decides the same way. *)
C5_AdmittedIffSeatAvailable ==
  [][/\ \A u \in Users, e \in Retreats, q \in Quantities :
          (resp'.op = "order" /\ OrderCreate(u, e, q, TRUE)
             /\ ~HoldsOverlapping(u, e)) =>
            IF SeatAvailableFor(u, e)
            THEN /\ resp'.status = "ok"
                 /\ Len(reservations') = Len(reservations) + 1
                 /\ reservations'[Len(reservations')].user = u
                 /\ reservations'[Len(reservations')].retreat = e
                 /\ reservations'[Len(reservations')].is_active
            ELSE /\ resp'.status = "no_places"
                 /\ reservations' = reservations
     /\ \A i \in Ids, e \in Retreats, tok \in Tokens :
          (/\ resp'.op = "exchange"
           /\ resp'.status \in {"ok", "no_places"}
           /\ price[reservations[i].retreat] # price[e]
           /\ Exchange(i, e, tok, 0)) =>
            /\ resp'.status = "ok" <=> SeatAvailableFor(reservations[i].user, e)
            /\ resp'.status = "no_places" => reservations' = reservations]_vars

C5_Witness ==
  /\ resp.op = "order"
  /\ resp.status = "no_places"
  /\ \E e \in Retreats : reserved_seats[e] > 0 /\ ActiveCount(e) = 0

(* C6: with seats = 0 and reserved_seats = 1, an order booking by a user who
   holds a notification and a wait-queue entry for the event (and no
   overlapping reservation) succeeds; afterwards reserved_seats = 0 and the
   user's wait-queue entry and notification are gone. *)
C6_ReservedSeatBooking ==
  [][\A u \in Users, e \in Retreats, q \in Quantities :
       (/\ resp'.op = "order"
        /\ seats[e] = 0
        /\ reserved_seats[e] = 1
        /\ Notified(u, e)
        /\ InQueue(u, e)
        /\ ~HoldsOverlapping(u, e)
        /\ OrderCreate(u, e, q, TRUE))
       => /\ resp'.status = "ok"
          /\ reserved_seats'[e] = 0
          /\ ~\E k \in 1..Len(wait_queue'[e]) : wait_queue'[e][k] = u
          /\ ~\E n \in notifications' : n.user = u /\ n.retreat = e
          /\ \E i \in 1..Len(reservations') :
               /\ reservations'[i].user = u
               /\ reservations'[i].retreat = e
               /\ reservations'[i].is_active]_vars

C6_Witness ==
  /\ resp.op = "order"
  /\ resp.status = "ok"
  /\ Len(reservations) > 0
  /\ seats[reservations[Len(reservations)].retreat] = 0
  /\ reserved_seats[reservations[Len(reservations)].retreat] = 0
  /\ reservations[Len(reservations)].is_active

(* C7: a successful order booking admitted because places_remaining > 0 by a
   user who was not notified leaves reserved_seats unchanged; one admitted
   through the reserved-seat path lowers it by exactly one. *)
C7_ReservedSeatsOnlyIfConsumed ==
  [][\A u \in Users, e \in Retreats, q \in Quantities :
       (resp'.op = "order" /\ resp'.status = "ok"
          /\ OrderCreate(u, e, q, TRUE)) =>
         IF seats[e] - ActiveCount(e) - reserved_seats[e] > 0
         THEN (~Notified(u, e) => reserved_seats' = reserved_seats)
         ELSE reserved_seats' = [reserved_seats EXCEPT ![e] = @ - 1]]_vars

(* ============================ cancellation ============================= *)
LineOf(i) == reservations[i].order_line

RefundCase(i) ==
  /\ start_time[reservations[i].retreat] - now
       >= min_day_refund[reservations[i].retreat] * Day
  /\ LineOf(i) # NoLine
  /\ order_lines[LineOf(i)].quantity = 1
  /\ ~\E k \in 1..Len(refunds) : refunds[k].orderline = LineOf(i)

(* a is refund_rate % of the line's cost plus tax, to the nearest cent *)
IsRefundOf(a, i) ==
  LET exact == order_lines[LineOf(i)].cost * (TaxDen + TaxNum)
                 * refund_rate[reservations[i].retreat]
      got   == a * TaxDen * 100
  IN /\ 2 * (got - exact) <= TaxDen * 100
     /\ 2 * (exact - got) <= TaxDen * 100

SingleUnit(i) == LineOf(i) = NoLine \/ order_lines[LineOf(i)].quantity <= 1

(* C8: cancelling an active reservation (order line of quantity 1 or none):
   at least min_day_refund days ahead and refundable -> one gateway refund of
   refund_rate % of the price paid plus tax, cancelation_action 'R';
   otherwise no gateway call and 'N'.  Either way the reservation becomes
   inactive with reason 'U' and cancelation_date = now. *)
C8_CancelRefund ==
  [][\A i \in Ids :
       (resp'.op = "cancel" /\ reservations[i].is_active /\ SingleUnit(i)
          /\ Cancel(i, TRUE)) =>
         /\ ~reservations'[i].is_active
         /\ reservations'[i].cancelation_reason = "U"
         /\ reservations'[i].cancelation_date = now
         /\ IF RefundCase(i)
            THEN /\ reservations'[i].cancelation_action = "R"
                 /\ Len(resp'.gw) = 1
                 /\ resp'.gw[1].call = "refund"
                 /\ IsRefundOf(resp'.gw[1].amount, i)
            ELSE /\ reservations'[i].cancelation_action = "N"
                 /\ resp'.gw = <<>>
                 /\ refunds' = refunds]_vars

C8_Witness ==
  /\ resp.op = "cancel"
  /\ Len(resp.gw) = 1
  /\ resp.gw[1].amount > 0
  /\ \E i \in Ids : reservations[i].cancelation_action = "R"

(* C9: a delete on an already inactive reservation succeeds and changes
   nothing: no gateway call, no rewrite of the cancelation fields, no
   reserved seat added, scheduler not triggered. *)
C9_CancelIdempotent ==
  [][\A i \in Ids, g \in BOOLEAN :
       (resp'.op = "cancel" /\ ~reservations[i].is_active /\ Cancel(i, g)) =>
         /\ resp'.status = "ok"
         /\ resp'.gw = <<>>
         /\ ~resp'.sched
         /\ UNCHANGED <<reservations, reserved_seats, refunds, orders,
                        order_lines, wait_queue, notifications,
                        next_user_notified>>]_vars

C9_Witness ==
  /\ resp = Reply("cancel", "ok", <<>>, FALSE)
  /\ \E i \in Ids : ~reservations[i].is_active /\ reservations[i].cancelation_date >= 0

(* C10: cancelling or exchanging an active reservation whose order line has
   quantity > 1 answers the contact-support error and changes nothing: the
   reservation stays active, no gateway call, no Refund or Order row,
   reserved_seats unchanged. *)
C10_QuantityRejected ==
  [][\A i \in Ids :
       (/\ resp'.op \in {"cancel", "exchange"}
        /\ reservations[i].is_active
        /\ LineOf(i) # NoLine
        /\ order_lines[LineOf(i)].quantity > 1
        /\ \/ \E g \in BOOLEAN : Cancel(i, g)
           \/ \E e \in Retreats, tok \in Tokens, f \in 0..3 :
                Exchange(i, e, tok, f))
       => /\ resp'.status = "quantity"
          /\ resp'.gw = <<>>
          /\ UNCHANGED <<reservations, refunds, orders, order_lines,
                         reserved_seats>>]_vars

C10_Witness ==
  /\ resp.status = "quantity"
  /\ resp.op = "exchange"
  /\ \E i \in Ids : /\ reservations[i].is_active
                    /\ LineOf(i) # NoLine
                    /\ order_lines[LineOf(i)].quantity > 1

(* ============================== exchange =============================== *)
EarlierRejections ==
  {"server_error", "quantity", "token_required", "exchange_date", "overlap"}

(* C11: an exchange to a different event with no free place, by a user
   without reserved-seat authorization, is rejected with the no-places-left
   error (unless an earlier validation already rejected it) and moves no
   reservation onto that event, whatever the price relation. *)
C11_ExchangeRechecksAvailability ==
  [][\A i \in Ids, e \in Retreats, tok \in Tokens :
       (/\ resp'.op = "exchange"
        /\ e # reservations[i].retreat
        /\ ~SeatAvailableFor(reservations[i].user, e)
        /\ Exchange(i, e, tok, 0))
       => /\ resp'.status \in EarlierRejections \cup {"no_places"}
          /\ reservations' = reservations]_vars

(* a is d plus tax, truncated to the cent *)
IsWithTax(a, d) ==
  /\ TaxDen * a <= d * (TaxDen + TaxNum)
  /\ d * (TaxDen + TaxNum) < TaxDen * (a + 1)

AbsDiff(a, b) == IF a < b THEN b - a ELSE a - b

SettlementOf(i) == orders[order_lines[LineOf(i)].order].settlement_id

(* C12: a successful exchange to a pricier event charges the price
   difference plus tax and nothing else is charged or refunded; to a cheaper
   event it refunds the difference plus tax against the settlement of the
   reservation's order; at equal price there is no gateway call.  A pricier
   exchange without payment_token or single_use_token is rejected before any
   gateway call. *)
C12_ExchangeAmounts ==
  [][/\ \A i \in Ids, e \in Retreats, tok \in Tokens :
          (/\ resp'.op = "exchange"
           /\ resp'.status = "ok"
           /\ reservations'[i].retreat = e
           /\ Exchange(i, e, tok, 0)) =>
            LET old  == price[reservations[i].retreat]
                new  == price[e]
                gw   == resp'.gw
                paid == {k \in 1..Len(gw) : gw[k].call \in {"charge", "refund"}}
            IN
            /\ new > old =>
                  /\ tok # "none"
                  /\ paid = {Len(gw)}
                  /\ gw[Len(gw)].call = "charge"
                  /\ IsWithTax(gw[Len(gw)].amount, AbsDiff(new, old))
            /\ new < old =>
                  /\ Len(gw) = 1
                  /\ gw[1].call = "refund"
                  /\ IsWithTax(gw[1].amount, AbsDiff(new, old))
                  /\ gw[1].target = SettlementOf(i)
            /\ new = old => gw = <<>>
     /\ \A i \in Ids, e \in Retreats :
          (/\ resp'.op = "exchange"
           /\ price[e] > price[reservations[i].retreat]
           /\ Exchange(i, e, "none", 0)) =>
            /\ resp'.status # "ok"
            /\ resp'.gw = <<>>]_vars

C12_Witness ==
  /\ resp.op = "exchange"
  /\ resp.status = "ok"
  /\ Len(resp.gw) = 1
  /\ resp.gw[1].call = "refund"
  /\ resp.gw[1].amount * TaxDen # AbsDiff(price["A"], price["C"]) * (TaxDen + TaxNum)

(* C13: an exchange whose target is the reservation's current event is
   rejected: the reservation is unchanged, no copy row is written and the
   gateway is not called. *)
C13_SameEventRejected ==
  [][\A i \in Ids, tok \in Tokens :
       (resp'.op = "exchange"
          /\ Exchange(i, reservations[i].retreat, tok, 0)) =>
         /\ resp'.status \in {"same_retirement", "quantity", "server_error"}
         /\ resp'.gw = <<>>
         /\ UNCHANGED <<reservations, orders, order_lines, refunds,
                        reserved_seats>>]_vars

C13_Witness ==
  /\ resp.op = "exchange"
  /\ resp.status = "same_retirement"
  /\ \E i \in Ids : reservations[i].is_active

UserActive(rs, u) ==
  Cardinality({k \in 1..Len(rs) : rs[k].user = u /\ rs[k].is_active})

(* C14: after a successful exchange of reservation i from its event to e,
   row i is active and references e, exactly one row was added, which
   belongs to the same user, references the old event and is inactive with
   reason 'U', action 'E' and a cancelation date; no other row changed and
   the user's number of active reservations is the same. *)
C14_ExchangeRows ==
  [][\A i \in Ids, e \in Retreats, tok \in Tokens :
       (resp'.op = "exchange" /\ resp'.status = "ok"
          /\ Exchange(i, e, tok, 0)) =>
         LET n == Len(reservations)
             c == reservations'[n + 1]
         IN
         /\ Len(reservations') = n + 1
         /\ reservations'[i].is_active
         /\ reservations'[i].retreat = e
         /\ reservations'[i].user = reservations[i].user
         /\ c.user = reservations[i].user
         /\ c.retreat = reservations[i].retreat
         /\ ~c.is_active
         /\ c.cancelation_reason = "U"
         /\ c.cancelation_action = "E"
         /\ c.cancelation_date = now
         /\ \A k \in Ids \ {i} : reservations'[k] = reservations[k]
         /\ UserActive(reservations', reservations[i].user)
              = UserActive(reservations, reservations[i].user)]_vars

(* ============================ order rollback =========================== *)
(* C15: an order request that fails (no places left, overlap, charge
   declined) persists nothing: reservations, orders, order lines, seat
   counters, wait queue and notifications are what they were. *)
C15_FailedOrderPersistsNothing ==
  [][\A u \in Users, e \in Retreats, q \in Quantities, g \in BOOLEAN :
       (resp'.op = "order" /\ resp'.status # "ok"
          /\ OrderCreate(u, e, q, g)) =>
         UNCHANGED <<reservations, orders, order_lines, refunds,
                     reserved_seats, next_user_notified, wait_queue,
                     notifications, profiles>>]_vars

C15_Witness ==
  /\ resp.op = "order"
  /\ resp.status = "payment_error"
  /\ Len(resp.gw) = 1
  /\ \E e \in Retreats : reserved_seats[e] > 0

(* ========================= wait-queue scheduler ======================== *)
(* C16: a notify call for an event made right after another notify call for
   it (same instant, nothing in between, so less than 24 h apart) is
   throttled: it would answer that the last notification is less than 24 h
   old and create no notification. *)
C16_SecondCallTooSoon ==
  \A e \in WaitRetreats : resp.op = "notify" => ~NotifyReady(e)

RecentlyNotified(e) ==
  \E n \in notifications :
    n.retreat = e /\ n.created_at > now - ThrottleMinutes

(* C16, with the condition the code tests: a notify call for an event that
   holds a notification younger than 23 h 55 min answers that the last
   notification is less than 24 h old, creates no notification and does not
   move the cursor. *)
C16_TooSoonAfterNotification ==
  [][\A e \in WaitRetreats :
       (resp'.op = "notify" /\ RecentlyNotified(e) /\ Notify(e)) =>
         /\ resp'.status = "too_soon"
         /\ notifications' \subseteq notifications
         /\ next_user_notified' = next_user_notified]_vars

C16_Witness ==
  /\ resp.op = "notify"
  /\ resp.status = "too_soon"
  /\ \E n \in notifications :
       n.created_at < now /\ n.created_at > now - ThrottleMinutes

(* C17: a notify call answered "too soon" creates and deletes no
   notification and leaves the cursor, the reserved seats and the wait queue
   as they were. *)
C17_ThrottledCallIsNoOp ==
  [][\A e \in WaitRetreats :
       (resp'.op = "notify" /\ resp'.status = "too_soon" /\ Notify(e)) =>
         UNCHANGED <<notifications, next_user_notified, reserved_seats,
                     wait_queue>>]_vars

Younger(e) ==
  \E n \in notifications :
    /\ n.retreat = e
    /\ n.created_at >= now - NOTIFICATION_LIFETIME_DAYS * Day
    /\ n.created_at > now - ThrottleMinutes

(* C18: a notify call that is not throttled notifies the
   min(reserved_seats, entries at or after the cursor) users that follow the
   cursor in queue order, writes one notification for each, moves the cursor
   by that number, and answers "no reserved seats" when it is zero. *)
C18_NotifyCountAndOrder ==
  [][\A e \in WaitRetreats :
       (resp'.op = "notify" /\ ~Younger(e) /\ Notify(e)) =>
         LET cur  == next_user_notified[e]
             left == Len(wait_queue[e]) - cur
             n    == IF reserved_seats[e] < left THEN reserved_seats[e] ELSE left
             new  == notifications' \ notifications
         IN
         /\ n >= 0
         /\ next_user_notified'[e] = cur + n
         /\ new = {[user |-> wait_queue[e][k], retreat |-> e, created_at |-> now] :
                     k \in (cur + 1)..(cur + n)}
         /\ Cardinality(new) = n
         /\ resp'.status = IF n = 0 THEN "no_reserved_seats" ELSE "ok"
         /\ UNCHANGED <<wait_queue, reserved_seats>>]_vars

C18_Witness ==
  /\ resp.op = "notify"
  /\ resp.status = "ok"
  /\ \E e \in WaitRetreats :
       /\ next_user_notified[e] = 2
       /\ Cardinality({n \in notifications : n.retreat = e /\ n.created_at = now}) = 1
       /\ Cardinality({n \in notifications : n.retreat = e}) = 2

EntriesBefore(u, e) ==
  Cardinality({k \in 1..Len(wait_queue[e]) :
                 \E j \in 1..Len(wait_queue[e]) :
                   k < j /\ wait_queue[e][j] = u})

(* C19: unsubscribing lowers the cursor by exactly one iff the entry stood
   before the cursor in the queue, leaves it alone otherwise, and never
   makes it negative. *)
C19_UnsubscribeCursor ==
  [][\A u \in Users, e \in WaitRetreats :
       (resp'.op = "unsubscribe" /\ Unsubscribe(u, e)) =>
         /\ next_user_notified'[e] =
              IF EntriesBefore(u, e) < next_user_notified[e]
              THEN next_user_notified[e] - 1
              ELSE next_user_notified[e]
         /\ next_user_notified'[e] >= 0
         /\ \A o \in Retreats \ {e} :
              next_user_notified'[o] = next_user_notified[o]]_vars

C19_Witness ==
  /\ resp.op = "unsubscribe"
  /\ \E e \in WaitRetreats :
       /\ next_user_notified[e] = 1
       /\ Len(wait_queue[e]) = 1
       /\ \E n \in notifications : n.retreat = e /\ n.user = wait_queue[e][1]

(* C21: unsubscribing user u from event e removes u's wait-queue entry of e
   and every notification of (u, e); the queue entries and notifications of
   other users and of other events are what they were; afterwards u holds no
   authorization for a reserved seat of e: with no free place left, u is not
   admitted. *)
C21_UnsubscribeFrame ==
  [][\A u \in Users, e \in UnsubRetreats :
       (resp'.op = "unsubscribe" /\ Unsubscribe(u, e)) =>
         /\ ~\E k \in 1..Len(wait_queue'[e]) : wait_queue'[e][k] = u
         /\ wait_queue'[e] = SelectSeq(wait_queue[e], LAMBDA x : x # u)
         /\ Len(wait_queue'[e]) = Len(wait_queue[e]) - 1
         /\ \A o \in Retreats \ {e} : wait_queue'[o] = wait_queue[o]
         /\ notifications' =
              notifications \ {n \in notifications : n.user = u /\ n.retreat = e}
         /\ (places_remaining(e) <= 0 => ~Admitted(u, e))'
         /\ UNCHANGED <<reserved_seats, reservations>>]_vars

C21_Witness ==
  /\ resp.op = "unsubscribe"
  /\ \E e \in UnsubRetreats, u \in Users :
       /\ next_user_notified[e] = 1
       /\ wait_queue[e] = <<u>>
       /\ reserved_seats[e] = 2
       /\ \E n \in notifications : n.retreat = e /\ n.user = u
       /\ ~\E n \in notifications : n.retreat = e /\ n.user # u

(* C20: for every event the cursor stays within 0..queue length, so that it
   rests on the oldest subscribed user not yet notified. *)
C20_CursorWithinQueue ==
  \A e \in Retreats :
    /\ 0 <= next_user_notified[e]
    /\ next_user_notified[e] <= Len(wait_queue[e])

(* ===================== reserved-seat authorization ===================== *)
AuthorizedAfter(u, e) ==
  /\ reserved_seats'[e] > 0
  /\ \E n \in notifications' : n.user = u /\ n.retreat = e

(* C22: a notification authorizes one reserved-seat booking, and only while
   it exists: after a notified user got onto an event that had no free place
   (by an order or by an exchange), and after a notify call purged a
   notification older than the retention window, that user is not authorized
   for a reserved seat of the event any more. *)
C22_NotificationSingleUse ==
  [][/\ \A u \in Users, e \in Retreats, q \in Quantities :
          (/\ resp'.op = "order"
           /\ resp'.status = "ok"
           /\ places_remaining(e) <= 0
           /\ HasNotification(u, e)
           /\ OrderCreate(u, e, q, TRUE)) => ~AuthorizedAfter(u, e)
     /\ \A i \in Ids, e \in Retreats, tok \in Tokens :
          (/\ resp'.op = "exchange"
           /\ resp'.status = "ok"
           /\ reservations'[i].retreat = e
           /\ places_remaining(e) <= 0
           /\ HasNotification(reservations[i].user, e)
           /\ Exchange(i, e, tok, 0)) => ~AuthorizedAfter(reservations[i].user, e)
     /\ \A e \in WaitRetreats :
          (resp'.op = "notify" /\ Notify(e)) =>
            \A n \in notifications :
              (n.retreat = e /\ n.created_at < now - NOTIFICATION_LIFETIME_DAYS * Day)
                => ~\E m \in notifications' : m.user = n.user /\ m.retreat = e]_vars

(* ============================ coupon pricing =========================== *)
NewLines == (Len(order_lines) + 1)..Len(order_lines')

FullPrice(l) == product_price[l.product] * l.quantity

CouponLines == {k \in NewLines : order_lines'[k].coupon}

(* C23: a fixed-value coupon is applied once per order, as a flat amount on
   a single applicable line whatever its quantity (value 10 on 2 x 40: cost
   70, coupon_real_value 10); every other line of the order has no coupon,
   coupon_real_value 0 and cost = unit price x quantity. *)
C23_FixedCouponOthersFullPrice ==
  [][\A u \in Users, cart \in Carts, g \in BOOLEAN :
       (/\ resp'.op = "order"
        /\ resp'.status = "ok"
        /\ coupon.value > 0
        /\ CartOrderCreate(u, cart, TRUE, "payment_token", "created", g)) =>
         /\ Cardinality(CouponLines) = 1
         /\ \A k \in NewLines :
              LET l == order_lines'[k] IN
              IF l.coupon
              THEN /\ product_type[l.product] \in applicable_product_types
                   /\ l.coupon_real_value <= coupon.value
                   /\ l.cost = FullPrice(l) - l.coupon_real_value
                   /\ (coupon.value = 1000 /\ l.product = "package" /\ l.quantity = 2)
                        => (l.cost = 7000 /\ l.coupon_real_value = 1000)
              ELSE /\ l.coupon_real_value = 0
                   /\ l.cost = FullPrice(l)]_vars

(* C23, with the time-slot lines told apart: as above, and every other line
   has no coupon, coupon_real_value 0 and cost = unit price x quantity, but
   for a time-slot line, which is paid with a ticket and costs 0. *)
C23_FixedCouponOncePerOrder ==
  [][\A u \in Users, cart \in Carts, g \in BOOLEAN :
       (/\ resp'.op = "order"
        /\ resp'.status = "ok"
        /\ coupon.value > 0
        /\ CartOrderCreate(u, cart, TRUE, "payment_token", "created", g)) =>
         /\ Cardinality(CouponLines) = 1
         /\ \A k \in NewLines :
              LET l == order_lines'[k] IN
              IF l.coupon
              THEN /\ product_type[l.product] \in applicable_product_types
                   /\ l.coupon_real_value <= coupon.value
                   /\ l.cost = FullPrice(l) - l.coupon_real_value
                   /\ (coupon.value = 1000 /\ l.product = "package" /\ l.quantity = 2)
                        => (l.cost = 7000 /\ l.coupon_real_value = 1000)
              ELSE /\ l.coupon_real_value = 0
                   /\ l.cost = IF product_type[l.product] = "timeslot"
                               THEN 0 ELSE FullPrice(l)]_vars

C23_Witness ==
  /\ resp.op = "order"
  /\ resp.status = "ok"
  /\ coupon.value = 1000
  /\ \E k \in 1..Len(order_lines), j \in 1..Len(order_lines) :
       /\ order_lines[k].order = order_lines[j].order
       /\ order_lines[k].coupon
       /\ order_lines[k].quantity = 2
       /\ order_lines[k].cost = 7000
       /\ order_lines[k].coupon_real_value = 1000
       /\ order_lines[j].product = "membership"
       /\ order_lines[j].cost = 5000

(* C24: for every coupon and every line of a created order,
   0 <= coupon_real_value <= unit price x quantity and
   cost = unit price x quantity - coupon_real_value, so cost >= 0. *)
C24_CostIsPriceMinusDiscount ==
  [][\A u \in Users, cart \in Carts, c \in BOOLEAN, g \in BOOLEAN :
       (/\ resp'.op = "order"
        /\ resp'.status = "ok"
        /\ CartOrderCreate(u, cart, c, "payment_token", "created", g)) =>
         \A k \in NewLines :
           LET l == order_lines'[k] IN
           /\ 0 <= l.coupon_real_value
           /\ l.coupon_real_value <= FullPrice(l)
           /\ l.cost = FullPrice(l) - l.coupon_real_value
           /\ l.cost >= 0]_vars

(* C24, with the time-slot lines told apart: for every coupon and every line
   of a created order, 0 <= coupon_real_value <= unit price x quantity and
   cost >= 0; cost = unit price x quantity - coupon_real_value on every line
   but a time-slot line, whose cost is 0. *)
C24_DiscountWithinLine ==
  [][\A u \in Users, cart \in Carts, c \in BOOLEAN, g \in BOOLEAN :
       (/\ resp'.op = "order"
        /\ resp'.status = "ok"
        /\ CartOrderCreate(u, cart, c, "payment_token", "created", g)) =>
         \A k \in NewLines :
           LET l == order_lines'[k] IN
           /\ 0 <= l.coupon_real_value
           /\ l.coupon_real_value <= FullPrice(l)
           /\ l.cost >= 0
           /\ l.cost = IF product_type[l.product] = "timeslot"
                       THEN 0 ELSE FullPrice(l) - l.coupon_real_value]_vars

C24_Witness ==
  /\ resp.op = "order"
  /\ resp.status = "ok"
  /\ \E k \in 1..Len(order_lines) :
       /\ order_lines[k].coupon
       /\ order_lines[k].coupon_real_value < coupon.value
       /\ order_lines[k].coupon_real_value = FullPrice(order_lines[k])
       /\ order_lines[k].cost = 0

(* ============================= coupon usage ============================ *)
(* C25: a successful order that uses the coupon raises the ordering user's
   usage counter by exactly one, whatever the number of lines and the
   quantities; an order without coupon and a rejected order leave every
   usage counter as it was. *)
C25_OneUsePerOrder ==
  [][/\ \A u \in Users, cart \in Carts, c \in BOOLEAN :
          (/\ resp'.op = "order"
           /\ resp'.status = "ok"
           /\ orders'[Len(orders')].user = u
           /\ Len(order_lines') = Len(order_lines) + Len(cart)
           /\ CartOrderCreate(u, cart, c, "payment_token", "created", TRUE)) =>
            IF c
            THEN /\ coupon_uses'[u] = coupon_uses[u] + 1
                 /\ \A o \in Users \ {u} : coupon_uses'[o] = coupon_uses[o]
            ELSE coupon_uses' = coupon_uses
     /\ (resp'.op = "order" /\ resp'.status # "ok") =>
          coupon_uses' = coupon_uses]_vars

C25_Witness ==
  /\ resp.op = "order"
  /\ resp.status = "ok"
  /\ Len(orders) = 1
  /\ Len(order_lines) = 3
  /\ \E k \in 1..Len(order_lines) :
       order_lines[k].coupon /\ order_lines[k].quantity = 2
  /\ coupon_uses[orders[1].user] = 1

UsedBy(u) == coupon_uses[u]
UsedByAll == coupon_uses["u1"] + coupon_uses["u2"]

CapReached(u) ==
  \/ coupon.max_use_per_user # 0 /\ UsedBy(u) >= coupon.max_use_per_user
  \/ coupon.max_use # 0 /\ UsedByAll >= coupon.max_use

(* C26: the coupon is accepted only while the user's uses are below
   max_use_per_user and the total uses below max_use (0: no cap); once a
   non-zero cap is reached, an order with the coupon and a coupon validation
   answer maximum-uses-exceeded; so the total uses never exceed a non-zero
   max_use and a user's uses never exceed a non-zero max_use_per_user. *)
C26_CouponCaps ==
  [][/\ \A u \in Users, cart \in Carts, g \in BOOLEAN :
          (/\ resp'.op = "order"
           /\ g = (resp'.status # "payment_error")
           /\ CartOrderCreate(u, cart, TRUE, "payment_token", "created", g)) =>
            (resp'.status = "coupon_usage_exceeded" <=> CapReached(u))
     /\ \A u \in Users, cart \in Carts :
          (resp'.op = "validate_coupon" /\ ValidateCoupon(u, cart)) =>
            (resp'.status = "coupon_usage_exceeded" <=> CapReached(u))
     /\ coupon.max_use # 0 =>
          coupon_uses'["u1"] + coupon_uses'["u2"] <= coupon.max_use
     /\ \A u \in Users :
          coupon.max_use_per_user # 0 =>
            coupon_uses'[u] <= coupon.max_use_per_user]_vars

C26_Witness ==
  /\ resp.status = "coupon_usage_exceeded"
  /\ coupon.max_use = 2
  /\ coupon.max_use_per_user = 0
  /\ UsedByAll = 2

(* the discount the coupon is worth on a line of the cart *)
Worth(l) ==
  IF coupon.value > 0
  THEN (IF coupon.value < FullPrice(l) THEN coupon.value ELSE FullPrice(l))
  ELSE (2 * FullPrice(l) * coupon.percent_off + 100) \div 200

Eligible(cart) ==
  {k \in 1..Len(cart) : product_type[cart[k].product] \in applicable_product_types}

(* C27: validate-coupon returns, among the lines of the cart the coupon is
   applicable to, the line with the largest discount and that discount, and
   changes no state: no order, order line or reservation is created, no
   coupon usage is consumed, the gateway is not called. *)
C27_ValidateCouponBestLine ==
  [][\A u \in Users, cart \in Carts :
       (resp'.op = "validate_coupon" /\ ValidateCoupon(u, cart)) =>
         /\ resp'.gw = <<>>
         /\ UNCHANGED <<orders, order_lines, reservations, refunds, profiles,
                        reserved_seats, coupon, coupon_uses, tickets,
                        membership, timeslot_users>>
         /\ resp'.status = "ok" =>
              /\ resp'.orderline \in Eligible(cart)
              /\ resp'.value = Worth(cart[resp'.orderline])
              /\ \A j \in Eligible(cart) : Worth(cart[j]) <= resp'.value]_vars

C27_Witness ==
  /\ resp.op = "validate_coupon"
  /\ resp.status = "ok"
  /\ resp.orderline = 2
  /\ resp.value = 400000
  /\ coupon.percent_off = 100

(* =============================== tickets =============================== *)
QuantityOf(cart, p) ==
  IF \E k \in 1..Len(cart) : cart[k].product = p
  THEN cart[CHOOSE k \in 1..Len(cart) : cart[k].product = p].quantity
  ELSE 0

PackageTickets(cart) ==
  100 * QuantityOf(cart, "package") + 1000 * QuantityOf(cart, "package2")

(* C28: after a successful order the user's tickets are the tickets before
   plus package.reservations x quantity for every package line minus one for
   every time-slot line; an order with a time-slot line by a user without
   ticket is rejected (not-enough-tickets, unless the coupon or an earlier
   registration to the time slot already rejected it) and the balance never
   becomes negative. *)
C28_TicketBalance ==
  [][/\ \A u \in Users, cart \in PayCarts, c \in BOOLEAN, pay \in Payments :
          (/\ resp'.op = "order"
           /\ resp'.status = "ok"
           /\ orders'[Len(orders')].user = u
           /\ Len(order_lines') = Len(order_lines) + Len(cart)
           /\ CartOrderCreate(u, cart, c, pay[1], pay[2], pay[3])) =>
            /\ tickets'[u] = tickets[u] + PackageTickets(cart)
                               - QuantityOf(cart, "time_slot")
            /\ \A o \in Users \ {u} : tickets'[o] = tickets[o]
     /\ (resp'.op = "order" /\ resp'.status # "ok") => tickets' = tickets
     /\ \A u \in Users, cart \in PayCarts, c \in BOOLEAN, pay \in Payments :
          (/\ resp'.op = "order"
           /\ tickets[u] = 0
           /\ QuantityOf(cart, "time_slot") > 0
           /\ CartOrderCreate(u, cart, c, pay[1], pay[2], pay[3])) =>
            /\ resp'.status # "ok"
            /\ (~c /\ u \notin timeslot_users) =>
                 resp'.status = "not_enough_tickets"
     /\ \A o \in Users : tickets'[o] >= 0]_vars

C28_Witness ==
  /\ resp.op = "order"
  /\ resp.status = "ok"
  /\ \E u \in Users :
       /\ tickets[u] = 200
       /\ u \in timeslot_users
       /\ orders[Len(orders)].user = u

(* ========================== zero-amount orders ========================= *)
BestWorth(cart) ==
  IF Eligible(cart) = {} THEN 0
  ELSE Worth(cart[CHOOSE k \in Eligible(cart) :
                    \A j \in Eligible(cart) : Worth(cart[j]) <= Worth(cart[k])])

(* what the cart costs before tax *)
Due(cart, c) ==
  5000 * QuantityOf(cart, "membership") + 4000 * QuantityOf(cart, "package")
    + 400000 * QuantityOf(cart, "package2")
    - (IF c THEN BestWorth(cart) ELSE 0)

LastOrder == orders'[Len(orders')]

(* C29: an order whose total amount is zero is created without gateway call
   and without payment_token or single_use_token being required, and carries
   placeholder authorization, settlement and reference ids; an order of a
   positive amount is charged and carries the gateway's ids, and without any
   token it is rejected. *)
C29_ZeroAmountSkipsGateway ==
  [][/\ \A u \in Users, cart \in PayCarts, c \in BOOLEAN, pay \in Payments :
          (/\ resp'.op = "order"
           /\ resp'.status = "ok"
           /\ orders'[Len(orders')].user = u
           /\ Len(order_lines') = Len(order_lines) + Len(cart)
           /\ CartOrderCreate(u, cart, c, pay[1], pay[2], pay[3])) =>
            IF Due(cart, c) = 0
            THEN /\ resp'.gw = <<>>
                 /\ LastOrder.authorization_id = 0
                 /\ LastOrder.settlement_id = 0
                 /\ LastOrder.reference_number = 0
            ELSE /\ pay[1] # "none"
                 /\ resp'.gw # <<>>
                 /\ resp'.gw[Len(resp'.gw)].call = "charge"
                 /\ resp'.gw[Len(resp'.gw)].amount * TaxDen
                      = Due(cart, c) * (TaxDen + TaxNum)
                 /\ LastOrder.settlement_id # 0
     /\ \A u \in Users, cart \in PayCarts, c \in BOOLEAN :
          (/\ resp'.op = "order"
           /\ resp'.status \in {"ok", "token_required"}
           /\ CartOrderCreate(u, cart, c, "none", "created", TRUE)) =>
            /\ resp'.gw = <<>>
            /\ resp'.status = "ok" <=> Due(cart, c) = 0
            /\ resp'.status = "token_required" =>
                 UNCHANGED <<orders, order_lines, tickets, membership,
                             coupon_uses, timeslot_users>>]_vars

C29_Witness ==
  /\ resp.op = "order"
  /\ resp.status = "ok"
  /\ resp.gw = <<>>
  /\ orders[Len(orders)].settlement_id = 0
  /\ \E k \in 1..Len(order_lines) :
       /\ order_lines[k].order = Len(orders)
       /\ order_lines[k].coupon
       /\ order_lines[k].cost = 0
       /\ order_lines[k].coupon_real_value = 8000

(* ============================ gateway calls ============================ *)
(* C30: no gateway call is retried: a request in which a gateway call failed
   (create profile, add card, charge, refund; a card that already exists
   included) ended with a payment error, and no gateway operation was
   invoked twice within the request. *)
C30_NoGatewayRetry ==
  \A j \in 1..Len(resp.gw), k \in 1..Len(resp.gw) :
    /\ ~resp.gw[k].ok => resp.status = "payment_error"
    /\ j # k => resp.gw[j].call # resp.gw[k].call

(* ======================= notification e-mails ========================== *)
(* C31: a notification e-mail that cannot be sent never aborts or rolls back
   the operation and never makes the request fail: the cancellation or the
   exchange is committed and the request succeeds. *)
C31_MailFailureNonFatal ==
  [][/\ \A i \in Ids :
          (resp'.op = "cancel" /\ SendsRefundMail(i, TRUE)
             /\ CancelMail(i, TRUE, FALSE))
          => /\ resp'.status = "ok"
             /\ ~reservations'[i].is_active
             /\ Len(refunds') = Len(refunds) + 1
     /\ \A i \in Ids, e \in Retreats, tok \in Tokens :
          (resp'.op = "exchange"
             /\ ExchangeOutcome(i, e, tok, 0).status = "ok"
             /\ ExchangeMail(i, e, tok, 0, FALSE))
          => /\ resp'.status = "ok"
             /\ reservations'[i].retreat = e
             /\ Len(reservations') = Len(reservations) + 1]_vars

(* ===================== order of the gateway calls ====================== *)
CallNames(gw) == [k \in 1..Len(gw) |-> gw[k].call]

IsPrefix(s, t) == Len(s) <= Len(t) /\ \A k \in 1..Len(s) : s[k] = t[k]

(* the calls of a charge paid with a single_use_token *)
SingleUseCalls(u) ==
  (IF u \in profiles THEN <<>> ELSE <<"create_profile">>) \o <<"add_card", "charge">>

(* a call was made only if every call before it succeeded *)
StopsAtFailure(gw) == \A k \in 1..Len(gw) : k < Len(gw) => gw[k].ok

NeedsCharge(i, e) == price[reservations[i].retreat] < price[e]

(* C32: a charge paid with a single_use_token calls create profile (only for
   a user without local profile, whose profile is then stored), add card and
   charge, in this order; a charge paid with a payment_token calls charge
   only; a failed call is the last call of the request. *)
C32_GatewayCallOrder ==
  [][\A i \in Ids, e \in Retreats, tok \in TokenPairs, fail \in GatewayFailures :
       (resp'.op = "exchange" /\ NeedsCharge(i, e) /\ Exchange(i, e, tok, fail))
       => LET gw == resp'.gw
              u  == reservations[i].user
          IN /\ StopsAtFailure(gw)
             /\ HasPaymentToken(tok) => CallNames(gw) \in {<<>>, <<"charge">>}
             /\ (~HasPaymentToken(tok) /\ HasSingleUseToken(tok))
                  => IsPrefix(CallNames(gw), SingleUseCalls(u))
             /\ resp'.status = "ok"
                  => /\ \A k \in 1..Len(gw) : gw[k].ok
                     /\ HasPaymentToken(tok) => CallNames(gw) = <<"charge">>
                     /\ ~HasPaymentToken(tok)
                          => CallNames(gw) = SingleUseCalls(u) /\ u \in profiles'
             /\ resp'.status # "ok" => profiles' = profiles]_vars

(* ============================= time slots ============================== *)
(* the two slots share no instant of their half-open intervals *)
Disjoint(x, y) == x.end_time <= y.start_time \/ y.end_time <= x.start_time

NoOverlapIn(slots) ==
  \A x \in slots, y \in slots : (x # y /\ x.period = y.period) => Disjoint(x, y)

(* C33: no two time slots of a period overlap: a creation that overlaps a
   slot of the same period is rejected and creates nothing, one that starts
   exactly when an existing slot ends is accepted. *)
C33_TimeSlotsDisjoint ==
  [][/\ NoOverlapIn(time_slots')
     /\ \A p \in Periods, iv \in Intervals :
          (resp'.op = "time_slot" /\ TimeSlotCreate(p, iv[1], iv[2]))
          => LET new == TimeSlot(p, iv[1], iv[2])
                 clash == \E x \in time_slots : x.period = p /\ ~Disjoint(x, new)
             IN /\ clash => (resp'.status = "overlap" /\ time_slots' = time_slots)
                /\ ~clash => (resp'.status = "ok" /\ new \in time_slots')]_vars

(* a slot was created right after another one of its period, and an
   overlapping creation was rejected *)
C33_Witness ==
  /\ resp.op = "time_slot"
  /\ resp.status = "overlap"
  /\ \E x \in time_slots, y \in time_slots :
       x.period = y.period /\ x.end_time = y.start_time

(* ================== the seat freed by a cancellation ==================== *)
(* places_remaining of the event of row i once the row is inactive *)
PlacesAfterCancel(i) ==
  LET e == reservations[i].retreat IN
  seats[e] - (ActiveCount(e) - 1) - reserved_seats[e]

Reserved(i) ==
  LET e == reservations[i].retreat IN
  reserved_seats[e] > 0 \/ PlacesAfterCancel(i) = 1

(* C34 as stated: cancelling an active reservation adds one reserved seat
   iff the event has reserved seats or exactly one place remains once the
   reservation is inactive; otherwise reserved_seats is unchanged and the
   freed seat can be booked by anyone; the scheduler is triggered. *)
C34_FreedSeatReservedOrBookable ==
  [][\A i \in Ids, g \in GatewayAnswers :
       (resp'.op = "cancel" /\ resp'.status = "ok" /\ reservations[i].is_active
          /\ Cancel(i, g))
       => LET e == reservations[i].retreat IN
          /\ resp'.sched
          /\ IF Reserved(i)
             THEN reserved_seats' = [reserved_seats EXCEPT ![e] = @ + 1]
             ELSE /\ reserved_seats' = reserved_seats
                  /\ places_remaining(e)' > 0]_vars

(* C34: cancelling an active reservation adds one reserved seat iff the
   event has reserved seats or exactly one place remains once the
   reservation is inactive; otherwise reserved_seats is unchanged and, unless
   the event is still overbooked, a place remains that anyone can book; the
   scheduler is triggered. *)
C34_FreedSeatReserved ==
  [][\A i \in Ids, g \in GatewayAnswers :
       (resp'.op = "cancel" /\ resp'.status = "ok" /\ reservations[i].is_active
          /\ Cancel(i, g))
       => LET e == reservations[i].retreat IN
          /\ resp'.sched
          /\ IF Reserved(i)
             THEN reserved_seats' = [reserved_seats EXCEPT ![e] = @ + 1]
             ELSE /\ reserved_seats' = reserved_seats
                  /\ places_remaining(e)' = PlacesAfterCancel(i)
                  /\ PlacesAfterCancel(i) > 0 => places_remaining(e)' > 0]_vars

(* the last seat of event A was freed and became a reserved seat *)
C34_Witness ==
  /\ resp.op = "cancel"
  /\ resp.sched
  /\ reserved_seats["A"] = 1
  /\ \E i \in Ids : reservations[i].retreat = "A" /\ ~reservations[i].is_active

(* ===================== cancellation, refund refused ==================== *)
(* C35: when the gateway refuses the refund of a cancellation, the request
   ends with an error and nothing changes: the reservation stays active
   without cancelation fields, no refund is recorded, reserved_seats is not
   incremented and the scheduler is not triggered. *)
C35_FailedRefundChangesNothing ==
  [][\A i \in Ids :
       (resp'.op = "cancel" /\ reservations[i].is_active /\ RefundCase(i)
          /\ Cancel(i, FALSE))
       => /\ resp'.status = "payment_error"
          /\ ~resp'.sched
          /\ reservations'[i].is_active
          /\ reservations'[i].cancelation_reason = "none"
          /\ reservations'[i].cancelation_action = "none"
          /\ reservations'[i].cancelation_date = -1
          /\ UNCHANGED <<reservations, refunds, reserved_seats, orders,
                         order_lines, next_user_notified, wait_queue,
                         notifications>>]_vars

C35_Witness ==
  /\ resp.op = "cancel"
  /\ resp.status = "payment_error"
  /\ Len(resp.gw) = 1
  /\ resp.gw[1].call = "refund"
  /\ refunds = <<>>
  /\ \E i \in Ids : reservations[i].is_active

(* ========================= exchange rollback =========================== *)
(* C36: an exchange that is rejected at any step leaves the local rows as
   they were: the reservation keeps its event and stays active, there is no
   copy row, no order, order line, refund or payment profile was added, and
   the wait-queue entries are still there. *)
C36_RejectedExchangeChangesNothing ==
  [][(resp'.op = "exchange" /\ resp'.status # "ok")
     => UNCHANGED <<reservations, orders, order_lines, refunds, profiles,
                    wait_queue, reserved_seats, next_user_notified,
                    notifications>>]_vars

(* the charge of an exchange into event A was refused while the user was
   waiting for A *)
C36_Witness ==
  /\ resp.op = "exchange"
  /\ resp.status = "payment_error"
  /\ resp.gw # <<>>
  /\ resp.gw[Len(resp.gw)].call = "charge"
  /\ Len(reservations) = 1
  /\ reservations[1].is_active
  /\ reservations[1].retreat = "C"
  /\ InQueue(reservations[1].user, "A")
  /\ ~InQueue(reservations[1].user, "B")

(* ====================== throttle of the scheduler ====================== *)
(* C37: for each event notify_users runs at most once in any window of
   23 h 55 min, whatever happened since its last run (notified users
   unsubscribed, nobody was notified, old notifications were purged). *)
C37_OneRunPerWindow ==
  [][\A e \in WaitRetreats :
       (resp'.op = "notify" /\ resp'.status # "too_soon" /\ NotifyLogged(e))
       => (probe[e] = Never \/ now - probe[e] >= ThrottleMinutes)]_vars

(* ================ exchange into a reserved seat ======================== *)
(* C38: an exchange into an event that admits the user through the
   reserved-seat path only (no place remaining, a reserved seat, the user
   notified; the events differ in price, so that the availability is
   tested) consumes the reserved seat as an order does: afterwards
   reserved_seats of the event is one lower and the user's wait-queue entry
   and notification for it are gone. *)
C38_ExchangeConsumesReservedSeat ==
  [][\A i \in Ids, e \in Retreats, tok \in Tokens :
       (/\ resp'.op = "exchange"
        /\ resp'.status = "ok"
        /\ places_remaining(e) <= 0
        /\ reserved_seats[e] > 0
        /\ HasNotification(reservations[i].user, e)
        /\ price[reservations[i].retreat] # price[e]
        /\ Exchange(i, e, tok, 0))
       => LET u == reservations[i].user IN
          /\ reserved_seats'[e] = reserved_seats[e] - 1
          /\ ~\E k \in 1..Len(wait_queue'[e]) : wait_queue'[e][k] = u
          /\ ~\E n \in notifications' : n.user = u /\ n.retreat = e]_vars

(* ========================= exchange deadline =========================== *)
(* the current event of row i starts less than min_day_exchange days from now *)
TooLate(i) ==
  LET cur == reservations[i].retreat IN
  start_time[cur] - now < min_day_exchange[cur] * Day

(* none of the checks made before the deadline check rejects the request *)
ReachesDeadlineCheck(i, e, tok) ==
  /\ LineOf(i) # NoLine
  /\ order_lines[LineOf(i)].quantity = 1
  /\ price[reservations[i].retreat] < price[e] => tok # "none"
  /\ e # reservations[i].retreat

(* C39: an exchange is accepted only if the current event of the
   reservation starts at least min_day_exchange days from now; otherwise it
   is rejected (with the exchange-date error, unless an earlier check of the
   request rejected it) before any gateway call and nothing is changed.  The
   deadline is the one of the current event, whatever the new event. *)
C39_ExchangeDeadline ==
  [][resp'.op = "exchange" =>
       \A i \in Ids :
         /\ (resp'.status = "ok"
               /\ reservations'[i].retreat # reservations[i].retreat)
              => ~TooLate(i)
         /\ ~TooLate(i)
              => \/ resp'.status # "exchange_date"
                 \/ \A e \in Retreats, tok \in TokenPairs : ~Exchange(i, e, tok, 0)
         /\ TooLate(i)
              => \A e \in Retreats, tok \in TokenPairs :
                   \/ /\ resp'.status \in {"exchange_date", "server_error",
                                           "quantity", "token_required",
                                           "same_retirement"}
                      /\ resp'.gw = <<>>
                      /\ ReachesDeadlineCheck(i, e, tok)
                           => resp'.status = "exchange_date"
                      /\ UNCHANGED <<reservations, orders, order_lines,
                                     refunds, profiles, wait_queue,
                                     reserved_seats, notifications>>
                   \/ ~Exchange(i, e, tok, 0)]_vars

(* an exchange into event B, whose own deadline has not passed, was rejected
   for the deadline of the current event *)
C39_Witness ==
  /\ resp.op = "exchange"
  /\ resp.status = "exchange_date"
  /\ start_time["B"] - now >= min_day_exchange["B"] * Day
  /\ \E i \in Ids :
       /\ reservations[i].is_active
       /\ reservations[i].retreat # "B"
       /\ TooLate(i)

(* ==================== updates of a reservation ========================= *)
(* C40: a partial update may only carry is_present, retirement,
   payment_token and single_use_token: with any other field it is rejected
   and changes nothing; a full update is always refused with
   method-not-allowed; is_present changes only for a staff requester and is
   silently ignored for the others. *)
C40_UpdateFields ==
  [][/\ resp'.op = "update"
          => /\ resp'.status = "method_not_allowed"
             /\ reservations' = reservations
     /\ \A i \in Ids, fields \in RequestFields, staff \in BOOLEAN,
           v \in BOOLEAN :
          (resp'.op = "partial_update" /\ PartialUpdate(i, fields, staff, v))
          => LET allowed == fields \subseteq
                   {"is_present", "retirement", "payment_token",
                    "single_use_token"}
             IN /\ ~allowed => /\ resp'.status = "invalid_fields"
                               /\ reservations' = reservations
                /\ allowed => resp'.status = "ok"
                /\ (allowed /\ ~staff) => reservations' = reservations
                /\ (allowed /\ staff /\ "is_present" \in fields)
                     => reservations'[i].is_present = v
                /\ reservations' =
                     [reservations EXCEPT ![i] =
                        [@ EXCEPT !.is_present = reservations'[i].is_present]]]_vars

(* a staff member has marked a user present; the request just answered
   was rejected for its fields *)
C40_Witness ==
  /\ resp.op = "partial_update"
  /\ resp.status = "invalid_fields"
  /\ \E i \in Ids : reservations[i].is_present /\ reservations[i].is_active
====
